---- MODULE Spec2Model ----
(***************************************************************************)
(* Model of the feature pipeline of jra-racing-analytics:                  *)
(*   src/src/data/preprocessing.py   calculate_last_3f_rank,               *)
(*                                   add_previous_races_features           *)
(*   src/src/features/build_features.py   the four ROI/profile builders    *)
(*   src/src/data/extraction.py      execute_query                         *)
(*                                                                         *)
(* A table (pandas DataFrame) is a sequence of rows; a row is a record     *)
(* whose idx field is its index label.  A missing value (NaN / NaT / NULL) *)
(* is NA.  Times, dates, ranks and odds are non-negative integers          *)
(* (last_3f and odds in tenths, as the store keeps them).                  *)
(***************************************************************************)
EXTENDS Integers, Sequences, FiniteSets, TLC

VARIABLES
    stage,        \* which operation has run: "input", then the stage's name
    df,           \* the caller's table handed to the stage
    out,          \* the table the stage returned
    group_keys,   \* build of pandas: does groupby.apply prepend the group keys
    n_previous,   \* window size of add_previous_races_features
    windows,      \* per output position, the previous_races frame the loop used
    kind,         \* which builder class the instance is
    db,           \* the stored entries (jvd_se joined with jvd_ra / jvd_um)
    cache,        \* the builder's cached table (None until built)
    ret,          \* what the last builder call returned or raised
    columns,      \* the column names of the caller's table df
    result,       \* how the stage call ended: same object, exception, warning
    min_runs,     \* the builder's min_runs / min_rides / min_races
    calls         \* the last builder call: forced, fetched; has a build returned

vars ==
    <<stage, df, out, group_keys, n_previous, windows, kind, db, cache, ret,
      columns, result, min_runs, calls>>

----------------------------------------------------------------------------
(* Missing value: NaN, NaT, SQL NULL.                                      *)
NA == -1

(* Bounds of the model.                                                    *)
MaxRows == 4      \* rows of a table handed to calculate_last_3f_rank
MaxRace == 2      \* race ids 1..MaxRace
MaxRuns == 3      \* rows of a table handed to add_previous_races_features
MaxN == 2         \* window sizes 1..MaxN
MaxEntries == 3   \* stored entries (rows of jvd_se)
MinRuns == 2      \* the builder's min_runs / min_rides / min_races
MaxRawRows == 1   \* rows of a table handed to clean_race_data
MaxStageRows == 2 \* rows of a table with some column missing
MaxHistory == 3   \* races of the horse whose history is asked for
MaxNRaces == 2    \* n_races of get_horse_history_with_features
MaxStored == 2    \* entries of the database queried by race_id
MaxConds == 1     \* races whose track condition is labelled

(* Final-furlong times seen in the model, in tenths of a second            *)
(* (34.9, 35.0, 35.2), and a missing one.                                  *)
Last3FValues == {NA, 349, 350, 352}

Range(s) == {s[i] : i \in 1..Len(s)}

Min(a, b) == IF a <= b THEN a ELSE b

RECURSIVE SeqSum(_)
SeqSum(s) == IF s = <<>> THEN 0 ELSE Head(s) + SeqSum(Tail(s))

RECURSIVE Flatten(_)
Flatten(ss) == IF ss = <<>> THEN <<>> ELSE Head(ss) \o Flatten(Tail(ss))

(* Ascending sequence of the members of a finite set of keys (integers; a  *)
(* single key of any kind is its own order).                               *)
RECURSIVE SortedSet(_)
SortedSet(S) ==
    IF S = {} THEN <<>>
    ELSE IF Cardinality(S) = 1 THEN <<CHOOSE x \in S : TRUE>>
    ELSE LET m == CHOOSE x \in S : \A y \in S : x <= y
         IN  <<m>> \o SortedSet(S \ {m})

(* Index labels of a table of n rows: a fresh RangeIndex 0..n-1, or the    *)
(* labels left by an earlier descending sort (n-1..0).                     *)
IndexKinds == {"range", "reversed"}
Label(k, n, p) == IF k = "range" THEN p - 1 ELSE n - p

----------------------------------------------------------------------------
(* Derived-rank stage: calculate_last_3f_rank.                             *)

(* Insert v into an ascending sequence.                                    *)
RECURSIVE InsertSorted(_, _)
InsertSorted(v, s) ==
    IF s = <<>> THEN <<v>>
    ELSE IF v <= Head(s) THEN <<v>> \o s
    ELSE <<Head(s)>> \o InsertSorted(v, Tail(s))

RECURSIVE SortValues(_)
SortValues(s) == IF s = <<>> THEN <<>> ELSE InsertSorted(Head(s), SortValues(Tail(s)))

(* Mutant of RankMin: method='dense', the ranks of distinct values are     *)
(* consecutive.                                                            *)
RankDense(v, vals) ==
    1 + Cardinality({vals[i] : i \in 1..Len(vals)} \cap 0..(v - 1))

(* Mutant of RankMin: method='max', the highest position among ties.       *)
RankMax(v, vals) ==
    LET s == SortValues(vals)
    IN  CHOOSE i \in 1..Len(s) : s[i] = v /\ \A j \in (i+1)..Len(s) : s[j] # v

(* Series.rank(method='min'): v's rank is the lowest 1-based position      *)
(* that v takes in the ascending order of the values.                      *)
RankMin(v, vals) ==
    LET s == SortValues(vals)
    IN  CHOOSE i \in 1..Len(s) : s[i] = v /\ \A j \in 1..(i-1) : s[j] # v

(* Mutant of ValidLast3f: the missing times are not dropped.               *)
AllLast3f(group) == group

(* The rows of a race that calc_rank ranks: group['last_3f'].dropna().     *)
ValidLast3f(group) == SelectSeq(group, LAMBDA r : r.last_3f # NA)

(* calc_rank(group): rank the non-missing last_3f of one race and write    *)
(* the ranks at their index labels; a group without any valid time is      *)
(* returned as it came.                                                    *)
calc_rank(group) ==
    LET valid == ValidLast3f(group)
        vals  == [i \in 1..Len(valid) |-> valid[i].last_3f] \o <<>>
        ranked(r) == \E i \in 1..Len(valid) : valid[i].idx = r.idx
        rankAt(r) == LET i == CHOOSE i \in 1..Len(valid) : valid[i].idx = r.idx
                     IN  RankMin(valid[i].last_3f, vals)
    IN  IF valid = <<>> THEN group
        ELSE [p \in 1..Len(group) |->
                IF ranked(group[p])
                THEN [group[p] EXCEPT !.last_3f_rank = rankAt(group[p])]
                ELSE group[p]]

(* df.groupby('race_id'): the groups in ascending key order, each with its *)
(* rows in their original order.                                           *)
GroupByRace(t) ==
    LET keys == SortedSet({t[p].race_id : p \in 1..Len(t)})
    IN  [k \in 1..Len(keys) |-> SelectSeq(t, LAMBDA r : r.race_id = keys[k])]

(* reset_index(drop=True): the rows keep their order and get 0..n-1.       *)
ResetIndex(t) == [p \in 1..Len(t) |-> [t[p] EXCEPT !.idx = p - 1]]

(* grouped.apply(calc_rank).  With the group keys prepended the result is  *)
(* the concatenation of the groups under a MultiIndex; without, it is      *)
(* re-indexed to the original axis.                                        *)
ApplyCalcRank(t, prepend) ==
    LET groups == GroupByRace(t)
        done   == [k \in 1..Len(groups) |-> calc_rank(groups[k])]
        cat    == Flatten(done)
    IN  IF prepend
        THEN ResetIndex(cat)
        ELSE [p \in 1..Len(t) |->
                LET q == CHOOSE q \in 1..Len(cat) : cat[q].idx = t[p].idx
                IN  cat[q]]

calculate_last_3f_rank(t, prepend) ==
    IF t = <<>> THEN t ELSE ApplyCalcRank(t, prepend)

----------------------------------------------------------------------------
(* Rolling-history stage: add_previous_races_features.                     *)

(* All orderings of a finite set as sequences.                             *)
RECURSIVE Perms(_)
Perms(S) ==
    IF S = {} THEN {<<>>}
    ELSE UNION {{<<x>> \o s : s \in Perms(S \ {x})} : x \in S}

(* sort_values('race_date'): ascending, NaT last.                          *)
DateLeq(a, b) == b = NA \/ (a # NA /\ a <= b)

SortedByDate(s) ==
    \A i \in 1..Len(s) : \A j \in i..Len(s) : DateLeq(s[i].race_date, s[j].race_date)

(* df_result[df_result['horse_id'] == horse_id]                            *)
RowsOfHorse(t, h) == SelectSeq(t, LAMBDA r : r.horse_id = h)

(* The frames sort_values may return for one horse: the sort is not a      *)
(* stable one, so rows of equal race_date may come in any order.           *)
HorseRacesOrders(t, h) ==
    {s \in Perms(Range(RowsOfHorse(t, h))) : SortedByDate(s)}

(* Mutant of TailN: head(n), the oldest rows, in place of tail(n).         *)
HeadN(s, n) == IF Len(s) <= n THEN s ELSE SubSeq(s, 1, n)

(* DataFrame.tail(n)                                                       *)
TailN(s, n) == IF Len(s) <= n THEN s ELSE SubSeq(s, Len(s) - n + 1, Len(s))

(* Mutant of EarlierThan: <= in place of <, which lets a row into its own  *)
(* window.                                                                 *)
EarlierOrSame(horse_races, race_date) ==
    SelectSeq(horse_races,
              LAMBDA r : r.race_date # NA /\ race_date # NA /\ r.race_date <= race_date)

(* horse_races[horse_races['race_date'] < race_date]: a comparison with    *)
(* NaT is False.                                                           *)
EarlierThan(horse_races, race_date) ==
    SelectSeq(horse_races,
              LAMBDA r : r.race_date # NA /\ race_date # NA /\ r.race_date < race_date)

previous_races(horse_races, race_date, n) ==
    TailN(EarlierThan(horse_races, race_date), n)

(* A mean is kept as the exact fraction num/den; NaN is 0/0.               *)
NaNFrac == [num |-> 0, den |-> 0]
IsSet(f) == f.den # 0

(* (cond).mean() of a boolean column: a fraction num/den over all rows.    *)
BoolMean(col) ==
    [num |-> Cardinality({i \in 1..Len(col) : col[i]}), den |-> Len(col)]

(* Series.mean() skips NaN; all-NaN gives NaN.                             *)
ColMean(vals) ==
    LET ok == SelectSeq(vals, LAMBDA v : v # NA)
    IN  IF ok = <<>> THEN NaNFrac ELSE [num |-> SeqSum(ok), den |-> Len(ok)]

ColMin(vals) ==
    LET ok == {vals[i] : i \in 1..Len(vals)} \ {NA}
    IN  IF ok = {} THEN NA ELSE CHOOSE m \in ok : \A x \in ok : m <= x

(* Mutant of RankLeq2: the missing rank compared as a number.              *)
RankLeq2NoNaN(r) == r.rank <= 2

(* A comparison of NaN with a number is False.                             *)
RankIs1(r)  == r.rank # NA /\ r.rank = 1
RankLeq2(r) == r.rank # NA /\ r.rank <= 2
RankLeq3(r) == r.rank # NA /\ r.rank <= 3

(* The feature columns of a row for which nothing was written.             *)
NoFeatures ==
    [avg_last_n_rank |-> NaNFrac, win_rate_last_n |-> NaNFrac,
     top2_rate_last_n |-> NaNFrac, top3_rate_last_n |-> NaNFrac,
     avg_rank_same_track |-> NaNFrac,
     days_since_last_race |-> NA, last_race_rank |-> NA,
     last_race_popularity |-> NA, best_last_3f |-> NA,
     count_last_3f_rank1 |-> NA]

(* Mutant of LastRace: iloc[0], the oldest row of the window.              *)
FirstRace(w) == w[1]

(* previous_races.iloc[-1]                                                 *)
LastRace(w) == w[Len(w)]

(* The features of a non-empty window w of a race.                         *)
WindowFeatures(race, w) ==
    LET last == LastRace(w)
        same_track == SelectSeq(w, LAMBDA r : r.track_type = race.track_type)
    IN  [avg_last_n_rank      |-> ColMean([i \in 1..Len(w) |-> w[i].rank]),
         win_rate_last_n      |-> BoolMean([i \in 1..Len(w) |-> RankIs1(w[i])]),
         top2_rate_last_n     |-> BoolMean([i \in 1..Len(w) |-> RankLeq2(w[i])]),
         top3_rate_last_n     |-> BoolMean([i \in 1..Len(w) |-> RankLeq3(w[i])]),
         avg_rank_same_track  |->
             IF same_track = <<>> THEN NaNFrac
             ELSE ColMean([i \in 1..Len(same_track) |-> same_track[i].rank]),
         days_since_last_race |-> race.race_date - last.race_date,
         last_race_rank       |-> last.rank,
         last_race_popularity |-> last.popularity,
         best_last_3f         |-> ColMin([i \in 1..Len(w) |-> w[i].last_3f]),
         count_last_3f_rank1  |->
             Cardinality({i \in 1..Len(w) :
                            w[i].last_3f_rank # NA /\ w[i].last_3f_rank = 1})]

(* Mutant of FeaturesOf: the rates and the count of a row without history  *)
(* default to zero.                                                        *)
FeaturesOrZero(race, w) ==
    IF w = <<>>
    THEN [NoFeatures EXCEPT !.win_rate_last_n = [num |-> 0, den |-> 1],
                            !.top2_rate_last_n = [num |-> 0, den |-> 1],
                            !.top3_rate_last_n = [num |-> 0, den |-> 1],
                            !.count_last_3f_rank1 = 0]
    ELSE WindowFeatures(race, w)

(* The body of the loop for one race: nothing is written when              *)
(* previous_races is empty.                                                *)
FeaturesOf(race, w) ==
    IF w = <<>> THEN NoFeatures ELSE WindowFeatures(race, w)

(* The iteration of the loops that writes at index label idx: the horse    *)
(* whose sorted frame holds the label, and the row of that frame.          *)
HorseAt(t, ord, idx) ==
    CHOOSE h \in DOMAIN ord : \E i \in 1..Len(ord[h]) : ord[h][i].idx = idx

RaceAt(t, ord, idx) ==
    LET hr == ord[HorseAt(t, ord, idx)]
    IN  hr[CHOOSE i \in 1..Len(hr) : hr[i].idx = idx]

(* Mutant of WindowOf: the last n rows of the horse, whatever their date.  *)
WindowOfAll(t, ord, n, p) ==
    TailN(ord[RaceAt(t, ord, t[p].idx).horse_id], n)

(* The previous_races frame of the iteration that writes at df_result.loc  *)
(* for the row at position p of t, when ord[h] is the sorted frame of h.   *)
WindowOf(t, ord, n, p) ==
    LET race == RaceAt(t, ord, t[p].idx)
    IN  previous_races(ord[race.horse_id], race.race_date, n)

(* The stage as a whole: every row keeps its columns and gets the features *)
(* written at its index label.                                             *)
add_previous_races_features(t, ord, n) ==
    [p \in 1..Len(t) |->
        [row  |-> t[p],
         feat |-> FeaturesOf(RaceAt(t, ord, t[p].idx), WindowOf(t, ord, n, p))]]

(* The choices of sorted frame, one per horse of the table.                *)
SortChoices(t) ==
    LET hs == {t[p].horse_id : p \in 1..Len(t)}
    IN  {f \in [hs -> UNION {HorseRacesOrders(t, h) : h \in hs}] :
            \A h \in hs : f[h] \in HorseRacesOrders(t, h)}

----------------------------------------------------------------------------
(* Query layer and builders.                                               *)

(* A DataFrame a builder caches or returns: cols tells whether it has its  *)
(* columns (pd.DataFrame() has none), rows are its rows.  built is False   *)
(* while the attribute is still None.                                      *)
NotBuilt == [built |-> FALSE, cols |-> FALSE, rows |-> <<>>]
EmptyFrame == [built |-> TRUE, cols |-> FALSE, rows |-> <<>>]
Frame(rows) == [built |-> TRUE, cols |-> TRUE, rows |-> rows]

(* What a call did: it returned a table or a score, or it raised.          *)
NoKey == [code |-> 0, cond |-> "none"]
NoCall ==
    [op |-> "none", key |-> NoKey, raised |-> "none", table |-> NotBuilt,
     score |-> NaNFrac]
Returned(op, table) ==
    [op |-> op, key |-> NoKey, raised |-> "none", table |-> table,
     score |-> NaNFrac]
Scored(op, key, score) ==
    [op |-> op, key |-> key, raised |-> "none", table |-> NotBuilt,
     score |-> score]
Raised(op, key, exc) ==
    [op |-> op, key |-> key, raised |-> exc, table |-> NotBuilt,
     score |-> NaNFrac]

(* execute_query: the engine cannot be made (sys.exit(1)), the query       *)
(* raises (caught: an empty DataFrame is returned), or it gives its rows.  *)
QueryOutcomes == {"ok", "query_error", "no_engine"}

(* kakutei_chakujun ~ '^[0-9]+$': the codes of the model that are digits,  *)
(* with their integer value.                                               *)
NumericCodes == {"00", "01", "02", "04", "99"}
CastInteger(c) ==
    CASE c = "00" -> 0 [] c = "01" -> 1 [] c = "02" -> 2 [] c = "04" -> 4
      [] c = "99" -> 99

(* The WHERE clause of the three SQL builders.                             *)
InPopulation(e) ==
    /\ e.kakutei_chakujun \in NumericCodes
    /\ e.kakutei_chakujun \notin {"00", "99"}
    /\ e.tansho_ninkijun # NA
    /\ e.tansho_odds # NA

(* The GROUP BY key of an entry: sire_name, track_type, baba_condition for *)
(* the sire builder; the entity's name and code, course_name, track_type   *)
(* and distance_category for the jockey and the horse builder.             *)
GroupKey(k, e) ==
    IF k = "sire"
    THEN [code |-> e.code, name |-> e.code, cond |-> e.cond]
    ELSE [code |-> e.code, name |-> e.name, cond |-> e.cond]

(* ROUND(x / y, 0) of non-negative integers, half away from zero.          *)
RoundDiv(x, y) == (2 * x + y) \div (2 * y)

(* SUM(CASE WHEN rank = 1 THEN odds ELSE 0 END), in tenths.                *)
SumWinOdds(es) ==
    SeqSum([i \in 1..Len(es) |->
               IF CastInteger(es[i].kakutei_chakujun) = 1
               THEN es[i].tansho_odds ELSE 0] \o <<>>)

CountWins(es) ==
    Cardinality({i \in 1..Len(es) : CastInteger(es[i].kakutei_chakujun) = 1})

(* One output row of the grouped SELECT.  roi_percentage is kept in        *)
(* hundredths of a percent: ROUND(SUM(odds of wins) / COUNT * 100, 2)     *)
(* with odds = tansho_odds / 10.0.                                         *)
GroupRow(key, es) ==
    [code |-> key.code, name |-> key.name, cond |-> key.cond,
     total |-> Len(es),
     wins |-> CountWins(es),
     win_rate |-> RoundDiv(CountWins(es) * 10000, Len(es)),
     roi_percentage |-> RoundDiv(SumWinOdds(es) * 1000, Len(es))]

(* Mutant of GroupRows: HAVING COUNT > minimum.                            *)
GroupRowsAbove(k, entries, minimum) ==
    LET pop  == SelectSeq(entries, InPopulation)
        keys == {GroupKey(k, pop[i]) : i \in 1..Len(pop)}
        of(key) == SelectSeq(pop, LAMBDA e : GroupKey(k, e) = key)
    IN  {GroupRow(key, of(key)) : key \in {x \in keys : Len(of(x)) > minimum}}

(* The grouped SELECT without its ORDER BY: one row per key with at least  *)
(* min_runs entries of the population.                                     *)
GroupRows(k, entries, minimum) ==
    LET pop  == SelectSeq(entries, InPopulation)
        keys == {GroupKey(k, pop[i]) : i \in 1..Len(pop)}
        of(key) == SelectSeq(pop, LAMBDA e : GroupKey(k, e) = key)
    IN  {GroupRow(key, of(key)) : key \in {x \in keys : Len(of(x)) >= minimum}}

(* ORDER BY roi_percentage DESC: rows of equal ROI come in any order.      *)
RoiDescending(s) ==
    \A i \in 1..Len(s) : \A j \in i..Len(s) :
       s[i].roi_percentage >= s[j].roi_percentage

QueryResults(k, entries, minimum) ==
    {s \in Perms(GroupRows(k, entries, minimum)) : RoiDescending(s)}

(* Python's s[a:b] on a string kept as a sequence of characters.           *)
Slice(s, a, b) == SubSeq(s, Min(a, Len(s)) + 1, Min(b, Len(s)))

(* kaisai_nen || kaisai_tsukihi || keibajo_code || race_bango              *)
RaceIdOf(e) == e.kaisai_nen \o e.kaisai_tsukihi \o e.keibajo_code \o e.race_bango

(* get_race_results(race_id=...): the id is cut into year, date, course    *)
(* and race number and the entries with those four fields are selected.    *)
(* CAST(... AS INTEGER) of a code that is no number fails the query, and   *)
(* execute_query then returns an empty frame.  The rows come with the      *)
(* RangeIndex of read_sql_query.                                           *)
get_race_results(race_id, entries) ==
    LET year     == Slice(race_id, 0, 4)
        date     == Slice(race_id, 4, 12)
        course   == Slice(race_id, 12, 14)
        race_num == Slice(race_id, 14, 16)
        sel == SelectSeq(entries,
                 LAMBDA e : /\ e.kaisai_nen = year
                            /\ e.kaisai_tsukihi = date
                            /\ e.keibajo_code = course
                            /\ e.race_bango = race_num)
    IN  IF \E i \in 1..Len(sel) : sel[i].kakutei_chakujun \notin NumericCodes
        THEN <<>>
        ELSE [i \in 1..Len(sel) |->
                [idx |-> i - 1,
                 race_id |-> RaceIdOf(sel[i]),
                 horse_id |-> sel[i].code,
                 rank |-> CastInteger(sel[i].kakutei_chakujun),
                 popularity |-> sel[i].tansho_ninkijun,
                 odds |-> sel[i].tansho_odds,
                 last_3f |-> sel[i].kohan_3f,
                 last_3f_rank |-> NA]] \o <<>>

(* The popularity bands of Last3FRankBuilder.build: lower and upper        *)
(* popularity and label; the first is the whole sample.                    *)
PopularityGroups ==
    << [lo |-> 0, hi |-> 0,   label |-> "all"],
       [lo |-> 1, hi |-> 3,   label |-> "favourite(1-3)"],
       [lo |-> 4, hi |-> 8,   label |-> "middle(4-8)"],
       [lo |-> 9, hi |-> 999, label |-> "longshot(9-)"] >>

InBand(g, r) ==
    g.label = "all" \/ (r.popularity # NA /\ g.lo <= r.popularity /\ r.popularity <= g.hi)

(* x[rank == 1].mean(): the mean odds of the winners of a group, in        *)
(* tenths; NaN odds are skipped and the mean of nothing is NaN.            *)
AvgWinOdds(rows) ==
    ColMean([i \in 1..Len(rows) |->
                IF rows[i].rank = 1 THEN rows[i].odds ELSE NA] \o <<>>)

(* One row of groupby('last_3f_rank').agg(...) with the derived columns:   *)
(* roi = avg_win_odds * wins / total_horses * 100, odds being tenths / 10. *)
Last3fRow(label, rk, rows) ==
    LET wins == Cardinality({i \in 1..Len(rows) : rows[i].rank = 1})
        top3 == Cardinality({i \in 1..Len(rows) :
                                rows[i].rank # NA /\ rows[i].rank <= 3})
        avg  == AvgWinOdds(rows)
    IN  [last_3f_rank |-> rk, popularity_group |-> label,
         total_horses |-> Len(rows), wins |-> wins, top3 |-> top3,
         roi |-> IF IsSet(avg)
                 THEN [num |-> avg.num * wins * 10, den |-> avg.den * Len(rows)]
                 ELSE NaNFrac]

(* The statistics of one popularity band: a row per last_3f_rank in        *)
(* ascending order; rows without a last_3f_rank belong to no group.        *)
Last3fStats(combined, g) ==
    LET data == SelectSeq(combined, LAMBDA r : InBand(g, r))
        rks  == SortedSet({data[i].last_3f_rank : i \in 1..Len(data)} \ {NA})
    IN  [k \in 1..Len(rks) |->
            Last3fRow(g.label, rks[k],
                      SelectSeq(data, LAMBDA r : r.last_3f_rank = rks[k]))] \o <<>>

(* clean_race_data on the rows of get_race_results, whose rank,            *)
(* popularity, odds and last_3f the query has cast to numbers already:     *)
(* pd.to_numeric keeps every number and every NaN; an empty frame is       *)
(* returned as it is.  (clean_race_data below works on uncast cells.)      *)
CleanNumeric(t) ==
    IF t = <<>> THEN t
    ELSE [i \in 1..Len(t) |->
            [t[i] EXCEPT !.rank = t[i].rank, !.popularity = t[i].popularity,
                         !.odds = t[i].odds, !.last_3f = t[i].last_3f]] \o <<>>

(* The loop over the sampled races: the rows of every race that has any,   *)
(* ranked by calculate_last_3f_rank, concatenated under a new index.       *)
CombinedResults(entries, prepend) ==
    LET ids  == {RaceIdOf(entries[i]) : i \in 1..Len(entries)}
        per(id) == calculate_last_3f_rank(
                       CleanNumeric(get_race_results(id, entries)), prepend)
        RECURSIVE cat(_)
        cat(S) == IF S = {} THEN <<>>
                  ELSE LET id == CHOOSE x \in S : TRUE
                       IN  per(id) \o cat(S \ {id})
    IN  ResetIndex(cat(ids)) \o <<>>

(* The table Last3FRankBuilder.build caches: the statistics of the whole   *)
(* sample followed by those of the popularity bands.                       *)
Last3fTable(combined) ==
    Flatten([g \in 1..Len(PopularityGroups) |->
                Last3fStats(combined, PopularityGroups[g])] \o <<>>)

----------------------------------------------------------------------------
(* The cleaning stage.  A cell of a raw table is a string (str) or a float *)
(* (num, with NA for NaN and Inf for infinity); a column that does not     *)
(* exist yet holds Absent.                                                 *)

Inf == 1000000
Str(x) == [float |-> FALSE, str |-> x, num |-> NA]
Num(n) == [float |-> TRUE, str |-> "", num |-> n]
NaN == Num(NA)
AbsentCell == Str("absent")
Absent == "absent"

(* float(s) of the strings of the model; None for a string that is no      *)
(* number.                                                                 *)
Parse(x) ==
    CASE x = "004" -> 4
      [] x = "03"  -> 3
      [] x = "480" -> 480
      [] x = "01"  -> 1
      [] x = "inf" -> Inf
      [] OTHER     -> NA

(* Mutant of ToNumeric: errors='ignore', which leaves what does not parse. *)
ToNumericIgnore(c) ==
    IF c = AbsentCell \/ c.float \/ Parse(c.str) = NA THEN c ELSE Num(Parse(c.str))

(* pd.to_numeric(col, errors='coerce') on one cell                         *)
ToNumeric(c) == IF c = AbsentCell \/ c.float THEN c ELSE Num(Parse(c.str))

(* replace([np.inf, -np.inf], np.nan) on one cell                          *)
ReplaceInf(c) == IF c.float /\ c.num = Inf THEN NaN ELSE c

(* pd.to_datetime(kaisai_nen + kaisai_tsukihi, format='%Y%m%d',            *)
(* errors='coerce') on the strings of the model.                           *)
to_datetime(nen, tsukihi) ==
    IF nen = "2023" /\ tsukihi = "0105" THEN "2023-01-05" ELSE "NaT"

(* Mutant of track_type_of: the code compared as a whole with '1' and '2'. *)
track_type_exact(x) ==
    IF x = "1" THEN "turf" ELSE IF x = "2" THEN "dirt" ELSE "other"

(* str(x).startswith('1') / startswith('2') on the codes of the model; a   *)
(* missing code is the string 'None'.                                      *)
track_type_of(x) ==
    IF x \in {"11", "17"} THEN "turf"
    ELSE IF x \in {"23", "29"} THEN "dirt" ELSE "other"

babajotai_map(x) ==
    CASE x = "1" -> "good" [] x = "2" -> "slightly heavy" [] x = "3" -> "heavy"
      [] x = "4" -> "bad" [] OTHER -> "other"

seibetsu_map(x) ==
    CASE x = "1" -> "male" [] x = "2" -> "female" [] x = "3" -> "gelding"
      [] OTHER -> "unknown"

(* Mutant of weight_change: the sign is applied to the weight_change the   *)
(* row already has.                                                        *)
weight_change_in_place(r) ==
    LET w == IF r.weight_change # AbsentCell THEN r.weight_change.num
             ELSE IF r.zogen_sa.num # NA THEN r.zogen_sa.num ELSE 0
    IN  Num(IF r.zogen_fugo = "-" THEN 0 - w ELSE w)

(* int(zogen_sa) if it is not NaN, else 0; negated when zogen_fugo is '-'  *)
weight_change(r) ==
    LET w == IF r.zogen_sa.num # NA THEN r.zogen_sa.num ELSE 0
    IN  Num(IF r.zogen_fugo = "-" THEN 0 - w ELSE w)

(* The columns of numeric_cols the model carries.                          *)
numeric_cols == {"bataiju", "zogen_sa", "rank"}

(* clean_race_data on a table with the columns cols, in the order of the   *)
(* code: numeric coercion, race_date (skipped when the concatenation of a  *)
(* number and a string raises), infinities to NaN, the derived labels, age *)
(* and weight_change.  An empty table is returned as it is.                *)
clean_race_data(t, cols) ==
    IF t = <<>> THEN t
    ELSE
    LET coerced(r) ==
            [r EXCEPT !.bataiju  = IF "bataiju" \in cols THEN ToNumeric(@) ELSE @,
                      !.zogen_sa = IF "zogen_sa" \in cols THEN ToNumeric(@) ELSE @,
                      !.rank     = IF "rank" \in cols THEN ToNumeric(@) ELSE @]
        raises == \E i \in 1..Len(t) : t[i].kaisai_nen = "int"
        dated(r) ==
            IF {"kaisai_nen", "kaisai_tsukihi"} \subseteq cols /\ ~raises
            THEN [r EXCEPT !.race_date = to_datetime(r.kaisai_nen, r.kaisai_tsukihi)]
            ELSE r
        replaced(r) ==
            [r EXCEPT !.bataiju = ReplaceInf(@), !.zogen_sa = ReplaceInf(@),
                      !.rank = ReplaceInf(@), !.barei = ReplaceInf(@),
                      !.age = ReplaceInf(@), !.weight_change = ReplaceInf(@)]
        labelled(r) ==
            [r EXCEPT
               !.track_type = IF "track_code" \in cols
                              THEN track_type_of(r.track_code) ELSE @,
               !.baba_condition = IF "babajotai_code" \in cols
                                  THEN babajotai_map(r.babajotai_code) ELSE @,
               !.age = IF "barei" \in cols THEN ToNumeric(r.barei) ELSE @,
               !.sex = IF "seibetsu_code" \in cols
                       THEN seibetsu_map(r.seibetsu_code) ELSE @]
        weighed(r) ==
            IF {"bataiju", "zogen_fugo", "zogen_sa"} \subseteq cols
            THEN [r EXCEPT !.weight_change = weight_change(r)]
            ELSE r
    IN  [i \in 1..Len(t) |->
            weighed(labelled(replaced(dated(coerced(t[i])))))] \o <<>>

(* The columns of a cleaned table: those of the input and those added.     *)
CleanedColumns(t, cols) ==
    IF t = <<>> THEN cols
    ELSE cols
         \cup (IF {"kaisai_nen", "kaisai_tsukihi"} \subseteq cols
                  /\ \A i \in 1..Len(t) : t[i].kaisai_nen # "int"
               THEN {"race_date"} ELSE {})
         \cup (IF "track_code" \in cols THEN {"track_type"} ELSE {})
         \cup (IF "babajotai_code" \in cols THEN {"baba_condition"} ELSE {})
         \cup (IF "barei" \in cols THEN {"age"} ELSE {})
         \cup (IF "seibetsu_code" \in cols THEN {"sex"} ELSE {})
         \cup (IF {"bataiju", "zogen_fugo", "zogen_sa"} \subseteq cols
               THEN {"weight_change"} ELSE {})

----------------------------------------------------------------------------
(* Input tables.                                                           *)

Horses == {1, 2}
RaceDates == {1, 2, 4}
Ranks == {NA, 1, 2, 3}

(* The (race_date, rank) pairs of the rows: a dated race with any rank, or *)
(* a row whose date did not parse (NaT).                                   *)
Runs == (RaceDates \X Ranks) \cup {<<NA, NA>>}
TrackTypes == <<"turf", "dirt">>

(* A result row.  The columns a stage does not read carry sample values    *)
(* that tell the rows apart.                                               *)
Row(idx, race_id, horse_id, race_date, rank, popularity, track_type, last_3f, last_3f_rank) ==
    [idx |-> idx, race_id |-> race_id, horse_id |-> horse_id,
     race_date |-> race_date, rank |-> rank, popularity |-> popularity,
     track_type |-> track_type, last_3f |-> last_3f,
     last_3f_rank |-> last_3f_rank]

(* A table handed to calculate_last_3f_rank: n cleaned rows of the races   *)
(* rc in the order given, one horse per row, with final-furlong times tm.  *)
RankTable(n, k, rc, tm) ==
    [p \in 1..n |->
        Row(Label(k, n, p), rc[p], p, rc[p], p, p, TrackTypes[1], tm[p], NA)]

(* A table handed to add_previous_races_features: n rows of the horses h   *)
(* in the order given, with race dates and finishing ranks run.            *)
RollTable(n, k, h, run) ==
    [p \in 1..n |->
        Row(Label(k, n, p), p, h[p], run[p][1], run[p][2], p,
            TrackTypes[1 + (p % 2)], 349 + p, 1 + (p % 2))]

(* The columns of a table of the model; kyori is carried by name only.    *)
RowColumns ==
    {"race_id", "horse_id", "race_date", "kyori", "rank", "popularity",
     "track_type", "last_3f", "last_3f_rank"}

(* How a stage call ended: whether the returned table is the caller's own  *)
(* object, the exception that left the call, whether a warning was printed.*)
NoResult == [alias |-> FALSE, raised |-> "none", warned |-> FALSE]
SameObject == [alias |-> TRUE, raised |-> "none", warned |-> FALSE]
NewObject == [alias |-> FALSE, raised |-> "none", warned |-> FALSE]
Warned == [alias |-> FALSE, raised |-> "none", warned |-> TRUE]
StageRaised(exc) == [alias |-> FALSE, raised |-> exc, warned |-> FALSE]

(* No builder is involved in a stage call.                                 *)
NoBuilder ==
    /\ kind = "none" /\ db = <<>> /\ cache = NotBuilt /\ ret = NoCall
    /\ min_runs = 0
    /\ calls = [force |-> FALSE, fetched |-> FALSE, returned |-> FALSE,
                failed |-> FALSE]

----------------------------------------------------------------------------
(* Specification of the derived-rank stage.                                *)

InitRank ==
    /\ stage = "input"
    /\ \E n \in 0..MaxRows, k \in IndexKinds :
          \E rc \in [1..n -> 1..MaxRace], tm \in [1..n -> Last3FValues] :
             df = RankTable(n, k, rc, tm)
    /\ out = <<>>
    /\ group_keys \in BOOLEAN
    /\ n_previous = 0
    /\ windows = <<>>
    /\ columns = RowColumns /\ result = NoResult
    /\ NoBuilder

(* calculate_last_3f_rank: the caller's own table comes back when it is    *)
(* empty or has no last_3f column; groupby('race_id') needs that column.   *)
CalculateLast3fRank ==
    /\ stage = "input"
    /\ stage' = "calculate_last_3f_rank"
    /\ IF df = <<>> \/ "last_3f" \notin columns
       THEN out' = df /\ result' = SameObject
       ELSE IF "race_id" \notin columns
       THEN out' = <<>> /\ result' = StageRaised("KeyError")
       ELSE out' = calculate_last_3f_rank(df, group_keys) /\ result' = NewObject
    /\ UNCHANGED <<df, group_keys, n_previous, windows, kind, db, cache, ret,
                   columns, min_runs, calls>>

NextRank == CalculateLast3fRank

SpecRank == InitRank /\ [][NextRank]_vars

----------------------------------------------------------------------------
(* Specification of the rolling-history stage.                             *)

InitRoll ==
    /\ stage = "input"
    /\ \E n \in 0..MaxRuns :
          \E h \in [1..n -> Horses], run \in [1..n -> Runs] :
             /\ n > 0 => h[1] = 1      \* the horses are interchangeable
             /\ df = RollTable(n, "reversed", h, run)
    /\ out = <<>>
    /\ group_keys = FALSE
    /\ n_previous \in 1..MaxN
    /\ windows = <<>>
    /\ columns = RowColumns /\ result = NoResult
    /\ NoBuilder

(* The columns add_previous_races_features asks for before it starts.      *)
required_cols == {"horse_id", "race_id", "race_date", "kyori", "track_type"}

(* add_previous_races_features: an empty table comes back as it is; with a *)
(* required column missing the copy comes back after a printed message;    *)
(* the first non-empty window reads previous_races['rank'].                *)
AddPreviousRacesFeatures ==
    /\ stage = "input"
    /\ stage' = "add_previous_races_features"
    /\ IF df = <<>>
       THEN out' = df /\ windows' = <<>> /\ result' = SameObject
       ELSE IF ~(required_cols \subseteq columns)
       THEN out' = df /\ windows' = <<>> /\ result' = Warned
       ELSE \E ord \in SortChoices(df) :
              LET w == [p \in 1..Len(df) |-> WindowOf(df, ord, n_previous, p)]
              IN  IF "rank" \notin columns /\ \E p \in 1..Len(df) : w[p] # <<>>
                  THEN out' = <<>> /\ windows' = w
                       /\ result' = StageRaised("KeyError")
                  ELSE /\ out' = add_previous_races_features(df, ord, n_previous)
                       /\ windows' = w
                       /\ result' = NewObject
    /\ UNCHANGED <<df, group_keys, n_previous, kind, db, cache, ret,
                   columns, min_runs, calls>>

NextRoll == AddPreviousRacesFeatures

SpecRoll == InitRoll /\ [][NextRoll]_vars

----------------------------------------------------------------------------
(* Specification of the stages as a caller uses them: on a raw query       *)
(* result (cleaning, once and again) and on tables that may lack a column. *)

RawColumns ==
    {"kaisai_nen", "kaisai_tsukihi", "track_code", "babajotai_code", "barei",
     "seibetsu_code", "bataiju", "zogen_fugo", "zogen_sa", "rank"}

(* track_code, babajotai_code, seibetsu_code, barei and rank of a raw row. *)
RawProfiles ==
    << <<"11", "1", "1", Str("03"), Str("01")>>,
       <<"23", "0", "3", Str("inf"), Str("--")>>,
       <<"51", "None", "2", Num(Inf), Num(1)>>,
       <<"17", "2", "0", Str("03"), Str("01")>>,
       <<"None", "4", "None", NaN, NaN>>,
       <<"29", "3", "9", Str("03"), Str("01")>> >>

ZogenSa == {Str("004"), Str("abc"), Str(""), NaN, Num(4), Num(Inf)}

(* kaisai_nen and kaisai_tsukihi of a raw row, and its zogen_fugo (a       *)
(* missing flag is None).                                                  *)
DateInputs == {<<"2023", "0105">>, <<"2023", "1345">>, <<"int", "0105">>}
ZogenFugo == {"+", "-", "None"}

(* A row of get_race_results before cleaning; kaisai_nen "int" stands for  *)
(* a year held as a number.                                                *)
RawRow(idx, nen, tsukihi, prof, fugo, sa) ==
    [idx |-> idx, kaisai_nen |-> nen, kaisai_tsukihi |-> tsukihi,
     track_code |-> prof[1], babajotai_code |-> prof[2],
     seibetsu_code |-> prof[3], barei |-> prof[4], rank |-> prof[5],
     bataiju |-> Str("480"), zogen_fugo |-> fugo, zogen_sa |-> sa,
     race_date |-> Absent, track_type |-> Absent, baba_condition |-> Absent,
     sex |-> Absent, age |-> AbsentCell, weight_change |-> AbsentCell]

(* The column sets of the tables handed to the stages: all columns, or all *)
(* but one that the stage reads.                                           *)
RawColumnSets ==
    {RawColumns} \cup {RawColumns \ {c} : c \in {"zogen_fugo", "kaisai_tsukihi", "track_code"}}
RowColumnSets ==
    {RowColumns} \cup {RowColumns \ {c} : c \in required_cols \cup {"rank", "last_3f"}}

(* A column that the table does not have holds nothing.                    *)
Blank(t, cols) ==
    [p \in 1..Len(t) |->
        [t[p] EXCEPT !.rank = IF "rank" \in cols THEN @ ELSE NA,
                     !.last_3f = IF "last_3f" \in cols THEN @ ELSE NA]]

InitStage ==
    /\ \/ /\ stage = "raw"
          /\ columns \in RawColumnSets
          /\ \E n \in 0..MaxRawRows :
                \E date \in [1..n -> DateInputs],
                   prof \in [1..n -> 1..Len(RawProfiles)],
                   fugo \in [1..n -> ZogenFugo],
                   sa \in [1..n -> ZogenSa] :
                   \* kaisai_nen is one column of a query result: numbers in
                   \* every row or strings in every row
                   /\ \A p, q \in 1..n : (date[p][1] = "int") <=> (date[q][1] = "int")
                   /\ df = [p \in 1..n |->
                             RawRow(p - 1, date[p][1], date[p][2],
                                    RawProfiles[prof[p]], fugo[p], sa[p])]
          /\ n_previous = 0
       \/ /\ stage = "input"
          /\ columns \in RowColumnSets
          /\ \E n \in 0..MaxStageRows :
                \E h \in [1..n -> Horses], run \in [1..n -> Runs] :
                   /\ n > 0 => h[1] = 1
                   /\ df = Blank(RollTable(n, "reversed", h, run), columns)
          /\ n_previous \in 1..MaxN
    /\ out = <<>>
    /\ windows = <<>>
    /\ group_keys \in BOOLEAN
    /\ result = NoResult
    /\ NoBuilder

(* clean_race_data on a raw query result.                                  *)
CleanRaceData ==
    /\ stage = "raw"
    /\ stage' = "clean_race_data"
    /\ out' = clean_race_data(df, columns)
    /\ result' = IF df = <<>> THEN SameObject ELSE NewObject
    /\ UNCHANGED <<df, group_keys, n_previous, windows, kind, db, cache, ret,
                   columns, min_runs, calls>>

(* clean_race_data on the table the first cleaning returned.               *)
CleanRaceDataAgain ==
    /\ stage = "clean_race_data"
    /\ stage' = "clean_race_data twice"
    /\ df' = out
    /\ columns' = CleanedColumns(df, columns)
    /\ out' = clean_race_data(out, columns')
    /\ result' = IF out = <<>> THEN SameObject ELSE NewObject
    /\ UNCHANGED <<group_keys, n_previous, windows, kind, db, cache, ret,
                   min_runs, calls>>

NextStage ==
    \/ CleanRaceData
    \/ CleanRaceDataAgain
    \/ CalculateLast3fRank
    \/ AddPreviousRacesFeatures

SpecStage == InitStage /\ [][NextStage]_vars

----------------------------------------------------------------------------
(* Specification of the feature builders.  A behaviour is one builder      *)
(* instance over one database.                                             *)

SqlKinds == {"sire", "jockey", "horse"}
Kinds == SqlKinds \cup {"last3f"}

(* How the database stores kaisai_tsukihi: four characters (month and      *)
(* day) or eight (the width race_id[4:12] cuts out).                       *)
DateFormats == {"MMDD", "YYYYMMDD"}
Tsukihi(fmt) ==
    IF fmt = "MMDD" THEN <<"0", "1", "0", "5">>
    ELSE <<"2", "0", "2", "3", "0", "1", "0", "5">>

(* kakutei_chakujun, tansho_ninkijun and tansho_odds (in tenths) of the    *)
(* entries of the model: winners at two prices, a loser, the "00" code, a  *)
(* missing popularity, missing odds, and a code that is no number.         *)
EntryResults ==
    << <<"01", 1, 10>>, <<"01", 2, 24>>, <<"02", 1, 24>>, <<"00", 1, 24>>,
       <<"01", NA, 24>>, <<"01", 1, NA>>, <<"--", 1, 24>> >>

Codes == {1, 2}
Kohan3f == <<NA, 349, 352>>
Conds == {"turf", "dirt"}

(* One row of jvd_se joined to its race.  The SQL builders group by code   *)
(* and condition (entity 1 runs on turf, entity 2 on dirt); for            *)
(* Last3FRankBuilder the rows differ in kohan_3f.                          *)
Entry(fmt, code, kohan, res) ==
    [kaisai_nen |-> <<"2", "0", "2", "3">>,
     kaisai_tsukihi |-> Tsukihi(fmt),
     keibajo_code |-> <<"0", "5">>,
     race_bango |-> <<"1", "1">>,
     code |-> code, name |-> code,
     cond |-> IF code = 1 THEN "turf" ELSE "dirt",
     kohan_3f |-> kohan,
     kakutei_chakujun |-> res[1],
     tansho_ninkijun |-> res[2],
     tansho_odds |-> res[3]]

NumChoices(k) ==
    Len(EntryResults) * (IF k = "last3f" THEN Len(Kohan3f) ELSE Cardinality(Codes))

EntryOf(k, fmt, c) ==
    LET hi == 1 + ((c - 1) \div Len(EntryResults))
        res == EntryResults[1 + ((c - 1) % Len(EntryResults))]
    IN  IF k = "last3f" THEN Entry(fmt, 1, Kohan3f[hi], res)
        ELSE Entry(fmt, hi, 350, res)

InitBuild ==
    /\ stage = "ready"
    /\ kind \in Kinds
    /\ \E n \in 0..MaxEntries, fmt \in DateFormats :
          \E c \in [1..n -> 1..NumChoices(kind)] :
             /\ \A i \in 1..(n - 1) : c[i] <= c[i + 1]   \* a table is a bag
             /\ (kind \in SqlKinds \/ n = 0) => fmt = "MMDD"
             /\ db = [i \in 1..n |-> EntryOf(kind, fmt, c[i])]
    /\ group_keys \in (IF kind = "last3f" THEN BOOLEAN ELSE {TRUE})
    /\ min_runs \in (IF kind \in SqlKinds THEN 1..MinRuns ELSE {0})
    /\ df = <<>> /\ out = <<>> /\ windows = <<>> /\ n_previous = 0
    /\ columns = {} /\ result = NoResult
    /\ cache = NotBuilt
    /\ ret = NoCall
    /\ calls = [force |-> FALSE, fetched |-> FALSE, returned |-> FALSE,
                failed |-> FALSE]

(* What build() of a SQL builder leaves in the cache and returns.          *)
SqlBuilt(outcome) ==
    IF outcome = "query_error" THEN {EmptyFrame}
    ELSE {Frame(rows) : rows \in QueryResults(kind, db, min_runs)}

(* How a build() ended: the cache it leaves, the exception that left it or *)
(* the table it returned, and whether it executed the data retrieval.      *)
Ended(c, exc, t, fetched) ==
    [cache |-> c, raised |-> exc, table |-> t, fetched |-> fetched, called |-> TRUE]

(* The data retrieval of Last3FRankBuilder.build.  A failed race list has  *)
(* no race_id column; a sample without rows returns an empty frame and     *)
(* caches nothing; a sample without any final-furlong time has no          *)
(* last_3f_rank column to group by.                                        *)
Last3fBuilt(outcome) ==
    IF outcome = "query_error"
    THEN Ended(cache, "KeyError", NotBuilt, TRUE)
    ELSE LET combined == CombinedResults(db, group_keys)
         IN  IF combined = <<>>
             THEN Ended(cache, "none", EmptyFrame, TRUE)
             ELSE IF \A i \in 1..Len(combined) : combined[i].last_3f_rank = NA
             THEN Ended(cache, "KeyError", NotBuilt, TRUE)
             ELSE Ended(Frame(Last3fTable(combined)), "none",
                        Frame(Last3fTable(combined)), TRUE)

(* build(force_rebuild) of the four builders: the cached table is returned *)
(* unless nothing is cached or the rebuild is forced.                      *)
build(force, outcome) ==
    IF cache.built /\ ~force
    THEN {Ended(cache, "none", cache, FALSE)}
    ELSE IF outcome = "no_engine"
    THEN {Ended(cache, "SystemExit", NotBuilt, TRUE)}
    ELSE IF kind \in SqlKinds
    THEN {Ended(t, "none", t, TRUE) : t \in SqlBuilt(outcome)}
    ELSE {Last3fBuilt(outcome)}

(* "if self.<data> is None: self.build()" at the head of every accessor.   *)
EnsureBuilt(outcome) ==
    IF cache.built
    THEN {[Ended(cache, "none", cache, FALSE) EXCEPT !.called = FALSE]}
    ELSE build(FALSE, outcome)

(* The outcomes a call can meet: a call that finds its table cached runs   *)
(* no query.                                                               *)
Outcomes(force) == IF cache.built /\ ~force THEN {"ok"} ELSE QueryOutcomes

(* The part of a call's effect every builder method shares.                *)
Called(b, force, outcome) ==
    /\ cache' = b.cache
    /\ stage' = IF b.raised = "SystemExit" THEN "exited" ELSE stage
    /\ calls' = [force |-> force, fetched |-> b.fetched,
                 returned |-> calls.returned \/ (b.called /\ b.raised = "none"),
                 failed |-> b.fetched /\ outcome # "ok"]
    /\ UNCHANGED <<df, out, group_keys, n_previous, windows, kind, db,
                   columns, result, min_runs>>

(* SireTrackROIBuilder.build, JockeyCourseProfitBuilder.build and          *)
(* HorseCourseProfitBuilder.build.                                         *)
Build(force, outcome) ==
    /\ stage = "ready" /\ kind \in SqlKinds /\ outcome \in Outcomes(force)
    /\ \E b \in build(force, outcome) :
          /\ ret' = IF b.raised = "none" THEN Returned("build", b.table)
                    ELSE Raised("build", NoKey, b.raised)
          /\ Called(b, force, outcome)

(* (roi / avg_roi) * 100 for the first cached row of the key, 100.0 when   *)
(* no row has it; avg_roi is the mean roi_percentage of the cache.         *)
ScoreIn(t, key) ==
    LET hit == SelectSeq(t.rows, LAMBDA r : r.code = key.code /\ r.cond = key.cond)
        sum == SeqSum([i \in 1..Len(t.rows) |-> t.rows[i].roi_percentage] \o <<>>)
    IN  IF hit = <<>> THEN [num |-> 100, den |-> 1]
        ELSE [num |-> hit[1].roi_percentage * Len(t.rows) * 100, den |-> sum]

(* get_sire_track_roi_score, get_jockey_course_roi_score and               *)
(* get_course_roi_score: build when nothing is cached, then read the       *)
(* roi_percentage column of the cache.                                     *)
GetScore(key, outcome) ==
    /\ stage = "ready" /\ kind \in SqlKinds /\ outcome \in Outcomes(FALSE)
    /\ \E b \in EnsureBuilt(outcome) :
          /\ ret' = IF b.raised # "none" THEN Raised("get_score", key, b.raised)
                    ELSE IF ~b.cache.cols THEN Raised("get_score", key, "KeyError")
                    ELSE Scored("get_score", key, ScoreIn(b.cache, key))
          /\ Called(b, FALSE, outcome)

(* Mutant of FirstN: the last n rows.                                      *)
LastN(s, n) == SubSeq(s, Len(s) - Min(n, Len(s)) + 1, Len(s))

(* DataFrame.head(n)                                                       *)
FirstN(s, n) == SubSeq(s, 1, Min(n, Len(s)))

(* df.sort_values('roi_percentage', ascending=False).head(top_n) of the    *)
(* cached rows that pass the filter; rows of equal ROI come in any order.  *)
TopRows(t, cond, top_n) ==
    LET match == SelectSeq(t.rows, LAMBDA r : cond = "none" \/ r.cond = cond)
    IN  {FirstN(srt, top_n) : srt \in {x \in Perms(Range(match)) : RoiDescending(x)}}

(* The key of a top-K call: its filter and its top_n.                      *)
TopKey(cond, top_n) == [code |-> top_n, cond |-> cond]

(* get_top_roi_sires, get_top_roi_jockeys, get_top_course_performers; a    *)
(* dimension left None ("none") is not filtered on.                        *)
GetTop(cond, top_n, outcome) ==
    /\ stage = "ready" /\ kind \in SqlKinds /\ outcome \in Outcomes(FALSE)
    /\ \E b \in EnsureBuilt(outcome) :
          /\ IF b.raised # "none"
             THEN ret' = Raised("get_top", TopKey(cond, top_n), b.raised)
             ELSE IF ~b.cache.cols
             THEN ret' = Raised("get_top", TopKey(cond, top_n), "KeyError")
             ELSE \E rows \in TopRows(b.cache, cond, top_n) :
                     ret' = [Returned("get_top", Frame(rows))
                                EXCEPT !.key = TopKey(cond, top_n)]
          /\ Called(b, FALSE, outcome)

(* Last3FRankBuilder.build.                                                *)
BuildLast3f(force, outcome) ==
    /\ stage = "ready" /\ kind = "last3f" /\ outcome \in Outcomes(force)
    /\ \E b \in build(force, outcome) :
          /\ ret' = IF b.raised = "none" THEN Returned("build", b.table)
                    ELSE Raised("build", NoKey, b.raised)
          /\ Called(b, force, outcome)

(* The rows of one popularity group in ascending last_3f_rank; a cache     *)
(* that is still None cannot be subscripted.                               *)
RoiStats(b, group) ==
    IF b.raised # "none" THEN [raised |-> b.raised, rows |-> <<>>]
    ELSE IF ~b.cache.built THEN [raised |-> "TypeError", rows |-> <<>>]
    ELSE [raised |-> "none",
          rows |-> SelectSeq(b.cache.rows, LAMBDA r : r.popularity_group = group)]

(* get_last_3f_roi_stats                                                   *)
GetLast3fRoiStats(group, outcome) ==
    /\ stage = "ready" /\ kind = "last3f" /\ outcome \in Outcomes(FALSE)
    /\ \E b \in EnsureBuilt(outcome) :
          LET st == RoiStats(b, group)
              key == [code |-> 0, cond |-> group]
          IN  /\ ret' = IF st.raised # "none"
                        THEN Raised("get_last_3f_roi_stats", key, st.raised)
                        ELSE [Returned("get_last_3f_roi_stats", Frame(st.rows))
                                 EXCEPT !.key = key]
              /\ Called(b, FALSE, outcome)

Abs(x) == IF x < 0 THEN 0 - x ELSE x

(* Sum of fractions over a common denominator.                             *)
RECURSIVE FracSum(_)
FracSum(fs) ==
    IF fs = <<>> THEN [num |-> 0, den |-> 1]
    ELSE LET r == FracSum(Tail(fs))
         IN  [num |-> Head(fs).num * r.den + r.num * Head(fs).den,
              den |-> Head(fs).den * r.den]

(* rank_roi / avg_roi: avg_roi is the mean of the rois that are not NaN;   *)
(* a NaN on either side gives NaN, a zero mean a zero denominator.         *)
Adjustment(rows, row) ==
    LET ok == SelectSeq([i \in 1..Len(rows) |-> rows[i].roi] \o <<>>, IsSet)
        sum == FracSum(ok)
    IN  IF ok = <<>> \/ ~IsSet(row.roi) THEN NaNFrac
        ELSE [num |-> row.roi.num * sum.den * Len(ok),
              den |-> row.roi.den * sum.num]

(* get_last_3f_roi_adjustment: 1.0 for a group without statistics, else    *)
(* the roi of a row of the nearest last_3f_rank over the mean roi.         *)
GetLast3fRoiAdjustment(last_3f_rank, group, outcome) ==
    /\ stage = "ready" /\ kind = "last3f" /\ outcome \in Outcomes(FALSE)
    /\ \E b \in EnsureBuilt(outcome) :
          LET st == RoiStats(b, group)
              key == [code |-> last_3f_rank, cond |-> group]
              near(r) == \A x \in Range(st.rows) :
                            Abs(r.last_3f_rank - last_3f_rank)
                               <= Abs(x.last_3f_rank - last_3f_rank)
          IN  /\ IF st.raised # "none"
                 THEN ret' = Raised("get_last_3f_roi_adjustment", key, st.raised)
                 ELSE IF st.rows = <<>>
                 THEN ret' = Scored("get_last_3f_roi_adjustment", key,
                                    [num |-> 1, den |-> 1])
                 ELSE \E r \in {x \in Range(st.rows) : near(x)} :
                         ret' = Scored("get_last_3f_roi_adjustment", key,
                                       Adjustment(st.rows, r))
              /\ Called(b, FALSE, outcome)

TopNs == {1, 2}
Filters == Conds \cup {"none"}
AskedGroups == {"all", "longshot(9-)"}
AskedRanks == {1, 2}

NextBuild ==
    \/ \E force \in BOOLEAN, outcome \in QueryOutcomes : Build(force, outcome)
    \/ \E code \in Codes \cup {3}, cond \in Conds, outcome \in QueryOutcomes :
          GetScore([code |-> code, cond |-> cond], outcome)
    \/ \E cond \in Filters, top_n \in TopNs, outcome \in QueryOutcomes :
          GetTop(cond, top_n, outcome)
    \/ \E force \in BOOLEAN, outcome \in QueryOutcomes : BuildLast3f(force, outcome)
    \/ \E group \in AskedGroups, outcome \in QueryOutcomes :
          GetLast3fRoiStats(group, outcome)
    \/ \E rk \in AskedRanks, group \in AskedGroups, outcome \in QueryOutcomes :
          GetLast3fRoiAdjustment(rk, group, outcome)

SpecBuild == InitBuild /\ [][NextBuild]_vars

----------------------------------------------------------------------------
(* Specification of get_horse_history_with_features.                       *)

(* Year and month-day of the races a horse can have run, and the day       *)
(* number of each date (days since 2022-01-01).                            *)
HistoryDates == {<<2022, 105>>, <<2022, 1225>>, <<2023, 105>>, <<2023, 1225>>}
DayOf(nen, md) ==
    (IF nen = 2022 THEN 0 ELSE 365) + (IF md = 105 THEN 4 ELSE 358)

(* kaisai_tsukihi as the database stores it: digit strings of one width    *)
(* compare as their numbers.                                               *)
TsukihiOf(fmt, nen, md) == IF fmt = "MMDD" THEN md ELSE nen * 10000 + md

(* A row of get_race_results(horse_id=...) for the race of the date d.     *)
HistoryRow(idx, fmt, d) ==
    [idx |-> idx, race_id |-> d[1] * 10000 + d[2], horse_id |-> 1,
     kaisai_nen |-> d[1], kaisai_tsukihi |-> TsukihiOf(fmt, d[1], d[2]),
     race_date |-> NA, rank |-> 1 + idx, popularity |-> 1 + idx,
     track_type |-> TrackTypes[1], last_3f |-> 350, last_3f_rank |-> NA]

(* ORDER BY r.kaisai_nen DESC, r.kaisai_tsukihi DESC                       *)
QueryOrder(s) ==
    \A i \in 1..Len(s) : \A j \in (i + 1)..Len(s) :
       \/ s[i][1] > s[j][1]
       \/ s[i][1] = s[j][1] /\ s[i][2] > s[j][2]

InitHistory ==
    /\ stage = "history"
    /\ \E fmt \in DateFormats, D \in SUBSET HistoryDates :
          /\ Cardinality(D) <= MaxHistory
          /\ \E s \in Perms(D) :
                /\ QueryOrder(s)
                /\ db = [i \in 1..Len(s) |-> HistoryRow(i - 1, fmt, s[i])]
    /\ group_keys \in BOOLEAN
    /\ n_previous = 5
    /\ df = <<>> /\ out = <<>> /\ windows = <<>>
    /\ kind = "history" /\ cache = NotBuilt /\ ret = NoCall /\ min_runs = 0
    /\ columns = {} /\ result = NoResult
    /\ calls = [force |-> FALSE, fetched |-> FALSE, returned |-> FALSE,
                failed |-> FALSE]

(* sort_values('kaisai_tsukihi', ascending=False)                          *)
TsukihiDescending(s) ==
    \A i \in 1..Len(s) : \A j \in (i + 1)..Len(s) :
       s[i].kaisai_tsukihi >= s[j].kaisai_tsukihi

(* The race_date clean_race_data gives the rows of the history:           *)
(* pd.to_datetime(kaisai_nen + kaisai_tsukihi, format='%Y%m%d',            *)
(* errors='coerce') parses a year followed by four characters; the twelve  *)
(* characters of a year and an eight character kaisai_tsukihi give NaT.    *)
HistoryCleaned(t) ==
    [p \in 1..Len(t) |->
        [t[p] EXCEPT !.race_date =
            IF t[p].kaisai_tsukihi < 10000
            THEN DayOf(t[p].kaisai_nen, t[p].kaisai_tsukihi)
            ELSE NA]] \o <<>>

(* get_horse_history_with_features(horse_id, n_races): the first n_races   *)
(* rows of the history sorted by kaisai_tsukihi descending, cleaned,       *)
(* ranked, sorted by race_date and given their rolling-history features;   *)
(* an empty history returns an empty frame.                                *)
GetHorseHistoryWithFeatures(n_races) ==
    /\ stage = "history"
    /\ stage' = "get_horse_history_with_features"
    /\ IF db = <<>>
       THEN /\ df' = <<>> /\ out' = <<>>
            /\ ret' = [Returned("get_horse_history_with_features", EmptyFrame)
                          EXCEPT !.key = [code |-> n_races, cond |-> "none"]]
       ELSE \E srt \in {x \in Perms(Range(db)) : TsukihiDescending(x)} :
               LET horse_races == FirstN(srt, n_races)
                   with_3f == calculate_last_3f_rank(HistoryCleaned(horse_races),
                                                     group_keys)
               IN  \E races_sorted \in HorseRacesOrders(with_3f, 1) :
                   \E ord \in SortChoices(races_sorted) :
                      /\ df' = horse_races
                      /\ out' = add_previous_races_features(races_sorted, ord,
                                                            n_previous)
                      /\ ret' = [Returned("get_horse_history_with_features",
                                          Frame(races_sorted))
                                    EXCEPT !.key = [code |-> n_races,
                                                    cond |-> "none"]]
    /\ UNCHANGED <<group_keys, n_previous, windows, kind, db, cache, columns,
                   result, min_runs, calls>>

NextHistory == \E n_races \in 1..MaxNRaces : GetHorseHistoryWithFeatures(n_races)

SpecHistory == InitHistory /\ [][NextHistory]_vars

----------------------------------------------------------------------------
(* Specification of the queries by race_id.                                *)

(* The days, courses and race numbers of the stored races.                 *)
RaceDays(fmt) == {Tsukihi(fmt), [Tsukihi(fmt) EXCEPT ![Len(Tsukihi(fmt))] = "6"]}
Courses == {<<"0", "5">>, <<"0", "6">>}
RaceNumbers == {<<"1", "1">>, <<"1", "2">>}

(* An entry of the race of the day, course and number given.               *)
StoredEntry(fmt, day, course, num, code) ==
    [Entry(fmt, code, 350, EntryResults[1]) EXCEPT
        !.kaisai_tsukihi = day, !.keibajo_code = course, !.race_bango = num]

InitRace ==
    /\ stage = "stored"
    /\ \E fmt \in DateFormats, n \in 0..MaxStored :
          \E day \in [1..n -> RaceDays(fmt)], course \in [1..n -> Courses],
             num \in [1..n -> RaceNumbers] :
             db = [i \in 1..n |-> StoredEntry(fmt, day[i], course[i], num[i], i)]
    /\ group_keys \in BOOLEAN /\ n_previous = 5
    /\ df = <<>> /\ out = <<>> /\ windows = <<>>
    /\ kind = "race" /\ cache = NotBuilt /\ ret = NoCall /\ min_runs = 0
    /\ columns = {} /\ result = NoResult
    /\ calls = [force |-> FALSE, fetched |-> FALSE, returned |-> FALSE,
                failed |-> FALSE]

(* The rows of jvd_ra: one per stored race.                                *)
RacesOf(entries) ==
    {[kaisai_nen |-> entries[i].kaisai_nen,
      kaisai_tsukihi |-> entries[i].kaisai_tsukihi,
      keibajo_code |-> entries[i].keibajo_code,
      race_bango |-> entries[i].race_bango] : i \in 1..Len(entries)}

(* get_race_info(race_id=...): the races whose four fields are the four    *)
(* slices of the id.                                                       *)
get_race_info(race_id, entries) ==
    {r \in RacesOf(entries) :
        /\ r.kaisai_nen = Slice(race_id, 0, 4)
        /\ r.kaisai_tsukihi = Slice(race_id, 4, 12)
        /\ r.keibajo_code = Slice(race_id, 12, 14)
        /\ r.race_bango = Slice(race_id, 14, 16)}

(* get_race_results(race_id=...) for the race_id of a stored race.         *)
GetRaceResults(i) ==
    /\ stage = "stored" /\ i \in 1..Len(db)
    /\ stage' = "queried"
    /\ out' = get_race_results(RaceIdOf(db[i]), db)
    /\ ret' = [Returned("get_race_results", NotBuilt) EXCEPT
                  !.key = [code |-> i, cond |-> "none"]]
    /\ UNCHANGED <<df, group_keys, n_previous, windows, kind, db, cache,
                   columns, result, min_runs, calls>>

(* get_race_info(race_id=...) for the race_id of a stored race.            *)
GetRaceInfo(i) ==
    /\ stage = "stored" /\ i \in 1..Len(db)
    /\ stage' = "queried"
    /\ out' = SortedSet({RaceIdOf(r) : r \in get_race_info(RaceIdOf(db[i]), db)})
    /\ ret' = [Returned("get_race_info", NotBuilt) EXCEPT
                  !.key = [code |-> i, cond |-> "none"]]
    /\ UNCHANGED <<df, group_keys, n_previous, windows, kind, db, cache,
                   columns, result, min_runs, calls>>

(* The race_date and the track_type clean_race_data gives the rows of a    *)
(* race: the year and a four-character kaisai_tsukihi parse to a date      *)
(* (its day number), the year and eight characters do not.                 *)
PredictionCleaned(t) ==
    [p \in 1..Len(t) |->
        LET tsukihi == Slice(t[p].race_id, 4, Len(t[p].race_id) - 4)
        IN  t[p] @@ [race_date |-> IF Len(tsukihi) # 4 THEN NA
                                   ELSE IF tsukihi[4] = "5" THEN 369 ELSE 370,
                     track_type |-> TrackTypes[1]]] \o <<>>

(* prepare_race_data_for_prediction(race_id) for the race_id of a stored   *)
(* race: the results of the race, cleaned, ranked and given their          *)
(* rolling-history features; no result gives an empty frame.               *)
PrepareRaceDataForPrediction(i) ==
    /\ stage = "stored" /\ i \in 1..Len(db)
    /\ stage' = "prepared"
    /\ ret' = [Returned("prepare_race_data_for_prediction", NotBuilt) EXCEPT
                  !.key = [code |-> i, cond |-> "none"]]
    /\ LET results == get_race_results(RaceIdOf(db[i]), db)
           with_3f == calculate_last_3f_rank(PredictionCleaned(results), group_keys)
       IN  IF results = <<>>
           THEN df' = <<>> /\ out' = <<>> /\ windows' = <<>>
           ELSE \E ord \in SortChoices(with_3f) :
                   /\ df' = with_3f
                   /\ windows' = [p \in 1..Len(with_3f) |->
                                    WindowOf(with_3f, ord, n_previous, p)]
                   /\ out' = add_previous_races_features(with_3f, ord, n_previous)
    /\ UNCHANGED <<group_keys, n_previous, kind, db, cache, columns, result,
                   min_runs, calls>>

NextRace ==
    \/ \E i \in 1..MaxStored : GetRaceResults(i)
    \/ \E i \in 1..MaxStored : GetRaceInfo(i)
    \/ \E i \in 1..MaxStored : PrepareRaceDataForPrediction(i)

SpecRace == InitRace /\ [][NextRace]_vars

----------------------------------------------------------------------------
(* Specification of the SQL builders over entries whose entity name        *)
(* (TRIM(kishumei_ryakusho), TRIM(bamei)) is stored with every entry and   *)
(* may be spelled in two ways for one code.                                *)

Names == {1, 2}

(* A winner or a loser of the entity code under the name nm.               *)
NamedEntry(code, nm, won) ==
    [Entry("MMDD", code, 350, EntryResults[IF won THEN 1 ELSE 3]) EXCEPT !.name = nm]

InitKeys ==
    /\ stage = "ready"
    /\ kind \in SqlKinds
    /\ \E n \in 0..MaxEntries :
          \E code \in [1..n -> Codes], nm \in [1..n -> Names],
             won \in [1..n -> BOOLEAN] :
             /\ db = [i \in 1..n |-> NamedEntry(code[i], nm[i], won[i])]
             /\ \A i \in 1..(n - 1) :          \* a table is a bag
                   \/ code[i] < code[i + 1]
                   \/ code[i] = code[i + 1] /\ nm[i] < nm[i + 1]
                   \/ /\ code[i] = code[i + 1] /\ nm[i] = nm[i + 1]
                      /\ (won[i] => won[i + 1])
    /\ group_keys = TRUE
    /\ min_runs \in 1..MinRuns
    /\ df = <<>> /\ out = <<>> /\ windows = <<>> /\ n_previous = 0
    /\ columns = {} /\ result = NoResult
    /\ cache = NotBuilt
    /\ ret = NoCall
    /\ calls = [force |-> FALSE, fetched |-> FALSE, returned |-> FALSE,
                failed |-> FALSE]

NextKeys ==
    \/ \E force \in BOOLEAN, outcome \in QueryOutcomes : Build(force, outcome)
    \/ \E code \in Codes, cond \in Conds, outcome \in QueryOutcomes :
          GetScore([code |-> code, cond |-> cond], outcome)

SpecKeys == InitKeys /\ [][NextKeys]_vars

----------------------------------------------------------------------------
(* Specification of the track-condition label of a race: the               *)
(* race_conditions sub-query of the sire and the horse builder, and        *)
(* get_race_results followed by clean_race_data.                           *)

TrackCodes == {"11", "23", "51"}
BabaCodes == {"0", "1", "2", "3", "4"}

(* CASE WHEN SUBSTRING(track_code, 1, 1) = '1' THEN babajotai_code_shiba   *)
(*      ELSE babajotai_code_dirt END                                       *)
babajotai_code(race) ==
    IF race.track_code \in {"11", "17"} THEN race.babajotai_code_shiba
    ELSE race.babajotai_code_dirt

(* CASE WHEN babajotai_code_shiba = '1' OR babajotai_code_dirt = '1' ...   *)
baba_condition(race) ==
    LET has(c) == race.babajotai_code_shiba = c \/ race.babajotai_code_dirt = c
    IN  CASE has("1") -> "good" [] has("2") -> "slightly heavy"
          [] has("3") -> "heavy" [] has("4") -> "bad" [] OTHER -> "other"

(* One row of race_conditions.                                             *)
race_conditions(race) ==
    [track_code |-> race.track_code,
     babajotai_code |-> babajotai_code(race),
     track_type |-> track_type_of(race.track_code),
     baba_condition |-> baba_condition(race)]

(* The row get_race_results returns for an entry of the race, cleaned.     *)
CleanedRace(race) ==
    clean_race_data(
        <<RawRow(0, "2023", "0105",
                 <<race.track_code, babajotai_code(race), "1", Str("03"), Num(1)>>,
                 "+", Num(4))>>, RawColumns)[1]

InitCond ==
    /\ stage = "races"
    /\ \E n \in 0..MaxConds :
          \E tc \in [1..n -> TrackCodes], shiba \in [1..n -> BabaCodes],
             dirt \in [1..n -> BabaCodes] :
             db = [i \in 1..n |->
                     [track_code |-> tc[i], babajotai_code_shiba |-> shiba[i],
                      babajotai_code_dirt |-> dirt[i]]]
    /\ group_keys = FALSE /\ n_previous = 0
    /\ df = <<>> /\ out = <<>> /\ windows = <<>>
    /\ kind \in {"sire", "horse"}
    /\ cache = NotBuilt /\ ret = NoCall /\ min_runs = 0
    /\ columns = RawColumns /\ result = NoResult
    /\ calls = [force |-> FALSE, fetched |-> FALSE, returned |-> FALSE,
                failed |-> FALSE]

(* The race_conditions rows of the builder's query.                        *)
RaceConditions ==
    /\ stage = "races"
    /\ stage' = "race_conditions"
    /\ out' = [i \in 1..Len(db) |-> race_conditions(db[i])]
    /\ UNCHANGED <<df, group_keys, n_previous, windows, kind, db, cache, ret,
                   columns, result, min_runs, calls>>

(* The same races through get_race_results and clean_race_data.            *)
CleanedConditions ==
    /\ stage = "races"
    /\ stage' = "clean_race_data"
    /\ out' = [i \in 1..Len(db) |-> CleanedRace(db[i])]
    /\ UNCHANGED <<df, group_keys, n_previous, windows, kind, db, cache, ret,
                   columns, result, min_runs, calls>>

NextCond == RaceConditions \/ CleanedConditions

SpecCond == InitCond /\ [][NextCond]_vars

----------------------------------------------------------------------------
(* Claims about the rolling-history stage (checked under SpecRoll).        *)

Rolled == stage = "add_previous_races_features"

(* Rows of the same horse with a strictly earlier race_date than df[p].    *)
Priors(p) ==
    {q \in 1..Len(df) :
        /\ df[q].horse_id = df[p].horse_id
        /\ df[q].race_date # NA /\ df[p].race_date # NA
        /\ df[q].race_date < df[p].race_date}

InWindow(p, q) == \E i \in 1..Len(windows[p]) : windows[p][i] = df[q]

(* C1: the window of every row holds only rows of the same horse with a    *)
(* strictly earlier race_date, holds at most n_previous rows, and no prior *)
(* row left out is later than a row inside.                                *)
C1_WindowCausal ==
    Rolled =>
      \A p \in 1..Len(df) :
        /\ Len(windows[p]) <= n_previous
        /\ \A i \in 1..Len(windows[p]) : \E q \in Priors(p) : windows[p][i] = df[q]
        /\ \A q \in Priors(p) :
             ~InWindow(p, q) =>
               \A i \in 1..Len(windows[p]) :
                  df[q].race_date <= windows[p][i].race_date

(* A row with more prior races than the window takes.                      *)
C1_Witness ==
    /\ Rolled
    /\ \E p \in 1..Len(df) :
         /\ Len(windows[p]) = n_previous
         /\ \E q \in Priors(p) : ~InWindow(p, q)

(* C2: a row without any strictly earlier row of its horse has every       *)
(* rolling-history feature unset.                                          *)
C2_NoHistoryUnset ==
    Rolled =>
      \A p \in 1..Len(df) : Priors(p) = {} => out[p].feat = NoFeatures

(* A first race of a horse that runs again: the feature columns exist and  *)
(* the first race has none of them set.                                    *)
C2_Witness ==
    /\ Rolled
    /\ \E p, q \in 1..Len(df) :
         /\ Priors(p) = {}
         /\ p \in Priors(q)
         /\ out[p].feat = NoFeatures
         /\ IsSet(out[q].feat.win_rate_last_n)

(* C3: over a non-empty window the three rates lie in [0,1] and            *)
(* top3 >= top2 >= win.                                                    *)
FracIn01(f) == f.den > 0 /\ 0 <= f.num /\ f.num <= f.den
FracGeq(f, g) == f.num * g.den >= g.num * f.den

C3_RatesOrdered ==
    Rolled =>
      \A p \in 1..Len(df) :
        windows[p] # <<>> =>
          LET f == out[p].feat
          IN  /\ FracIn01(f.win_rate_last_n)
              /\ FracIn01(f.top2_rate_last_n)
              /\ FracIn01(f.top3_rate_last_n)
              /\ FracGeq(f.top3_rate_last_n, f.top2_rate_last_n)
              /\ FracGeq(f.top2_rate_last_n, f.win_rate_last_n)

(* A window that holds a missing rank beside a second place: the win rate  *)
(* is below the top-2 rate, and the missing rank keeps the top-3 rate      *)
(* below 1.                                                                *)
C3_Witness ==
    /\ Rolled
    /\ \E p \in 1..Len(df) :
         /\ \E i \in 1..Len(windows[p]) : windows[p][i].rank = NA
         /\ out[p].feat.win_rate_last_n.num < out[p].feat.top2_rate_last_n.num
         /\ out[p].feat.top3_rate_last_n.num < out[p].feat.top3_rate_last_n.den

(* C4: with the prior races on distinct dates the window is exactly the    *)
(* min(N, k) latest of them, and win_rate_last_n is the number of rank-1   *)
(* rows of the window over the number of its rows.                         *)
DistinctDates(S) ==
    \A q1, q2 \in S : q1 # q2 => df[q1].race_date # df[q2].race_date

Latest(S, n) ==
    {q \in S : Cardinality({r \in S : df[r].race_date > df[q].race_date}) < n}

C4_WindowExact ==
    Rolled =>
      \A p \in 1..Len(df) :
        DistinctDates(Priors(p)) =>
          /\ Len(windows[p]) = Min(n_previous, Cardinality(Priors(p)))
          /\ {q \in 1..Len(df) : InWindow(p, q)} = Latest(Priors(p), n_previous)
          /\ Priors(p) # {} =>
               out[p].feat.win_rate_last_n =
                 [num |-> Cardinality({q \in Latest(Priors(p), n_previous) :
                                          df[q].rank = 1}),
                  den |-> Min(n_previous, Cardinality(Priors(p)))]

(* More priors than the window size, on distinct dates, the oldest a win   *)
(* that the window leaves out and a later win that it keeps.               *)
C4_Witness ==
    /\ Rolled
    /\ \E p \in 1..Len(df) :
         /\ DistinctDates(Priors(p))
         /\ Cardinality(Priors(p)) > n_previous
         /\ \E q \in Priors(p) : ~InWindow(p, q) /\ df[q].rank = 1
         /\ out[p].feat.win_rate_last_n.num > 0

----------------------------------------------------------------------------
(* Claims about the derived-rank stage (checked under SpecRank).  A row of *)
(* the output is the input row of the same horse_id.                       *)

Ranked == stage = "calculate_last_3f_rank"

(* The rows of the input are the rows of the output, up to order, index    *)
(* label and the added column.                                             *)
SameRows ==
    /\ Len(out) = Len(df)
    /\ \A p \in 1..Len(df) : \E q \in 1..Len(out) :
          [out[q] EXCEPT !.last_3f_rank = NA, !.idx = df[p].idx] = df[p]

(* Input rows of the race of r with a valid time strictly below r's.       *)
Faster(r) ==
    {p \in 1..Len(df) :
        /\ df[p].race_id = r.race_id
        /\ df[p].last_3f # NA
        /\ df[p].last_3f < r.last_3f}

(* Input rows of the race of r with r's time.                              *)
TiedWith(r) ==
    {p \in 1..Len(df) : df[p].race_id = r.race_id /\ df[p].last_3f = r.last_3f}

(* C5: the rank of a row with a valid time is 1 plus the number of rows of *)
(* its race with a strictly smaller valid time; rows of other races do not *)
(* count.                                                                  *)
C5_RankCountsFaster ==
    Ranked =>
      /\ SameRows
      /\ \A q \in 1..Len(out) :
            out[q].last_3f # NA =>
               out[q].last_3f_rank = 1 + Cardinality(Faster(out[q]))

(* Times 35.2, 35.2, 34.9 of one race, in that order, ranked 2, 2, 1,      *)
(* beside a faster row of another race.                                    *)
C5_Witness ==
    /\ Ranked
    /\ \E a, b, c, d \in 1..Len(out) :
         /\ a < b /\ b < c
         /\ out[a].race_id = out[b].race_id /\ out[b].race_id = out[c].race_id
         /\ out[d].race_id # out[a].race_id
         /\ out[a].last_3f = 352 /\ out[b].last_3f = 352 /\ out[c].last_3f = 349
         /\ out[d].last_3f = 349
         /\ out[a].last_3f_rank = 2 /\ out[b].last_3f_rank = 2
         /\ out[c].last_3f_rank = 1

(* Two valid times of one race with no valid time of the race between.     *)
Consecutive(r1, r2) ==
    /\ r1.race_id = r2.race_id
    /\ r1.last_3f # NA /\ r2.last_3f # NA /\ r1.last_3f < r2.last_3f
    /\ ~\E p \in 1..Len(df) :
          /\ df[p].race_id = r1.race_id /\ df[p].last_3f # NA
          /\ r1.last_3f < df[p].last_3f /\ df[p].last_3f < r2.last_3f

(* Ranks start at 1 and grow with the time.                                *)
RanksMonotonic ==
    \A q1, q2 \in 1..Len(out) :
       (out[q1].last_3f # NA /\ out[q2].last_3f # NA
          /\ out[q1].race_id = out[q2].race_id) =>
          /\ out[q1].last_3f_rank >= 1
          /\ out[q1].last_3f < out[q2].last_3f =>
                out[q1].last_3f_rank < out[q2].last_3f_rank
          /\ out[q1].last_3f = out[q2].last_3f =>
                out[q1].last_3f_rank = out[q2].last_3f_rank

(* C6 as stated: the rank at the next distinct time is the number of rows  *)
(* tied at the better time, plus 1.                                        *)
C6_NextRankIsTiesPlusOne ==
    Ranked =>
      /\ RanksMonotonic
      /\ \A q1, q2 \in 1..Len(out) :
            Consecutive(out[q1], out[q2]) =>
               out[q2].last_3f_rank = Cardinality(TiedWith(out[q1])) + 1

(* C6 amended: the best valid time of a race has rank 1 and the rank at    *)
(* the next distinct time is the rank at the better time plus the number   *)
(* of rows tied there.                                                     *)
C6_NextRankIsRankPlusTies ==
    Ranked =>
      /\ RanksMonotonic
      /\ \A q \in 1..Len(out) :
            (out[q].last_3f # NA /\ Faster(out[q]) = {}) => out[q].last_3f_rank = 1
      /\ \A q1, q2 \in 1..Len(out) :
            Consecutive(out[q1], out[q2]) =>
               out[q2].last_3f_rank =
                  out[q1].last_3f_rank + Cardinality(TiedWith(out[q1]))

(* A race with times 34.9, 35.0, 35.0, 35.2: the tie at rank 2 puts the    *)
(* last row at rank 4.                                                     *)
C6_Witness ==
    /\ Ranked
    /\ \E q1, q2 \in 1..Len(out) :
         /\ Consecutive(out[q1], out[q2])
         /\ out[q1].last_3f_rank = 2
         /\ Cardinality(TiedWith(out[q1])) = 2
         /\ out[q2].last_3f_rank = 4

(* C7: a row with a missing last_3f has no last_3f_rank, and the ranks of  *)
(* the other rows are those of the table without the rows that miss it.    *)
C7_MissingUnranked ==
    Ranked =>
      LET ref == calculate_last_3f_rank(SelectSeq(df, LAMBDA r : r.last_3f # NA),
                                       group_keys)
      IN  /\ \A q \in 1..Len(out) :
                out[q].last_3f = NA => out[q].last_3f_rank = NA
          /\ \A q \in 1..Len(out) :
                out[q].last_3f # NA =>
                   \E j \in 1..Len(ref) :
                      /\ ref[j].horse_id = out[q].horse_id
                      /\ ref[j].last_3f_rank = out[q].last_3f_rank

(* A race whose first row misses the time and whose other rows are ranked  *)
(* 1 and 2.                                                                *)
C7_Witness ==
    /\ Ranked
    /\ \E a, b, c \in 1..Len(out) :
         /\ a < b /\ a < c
         /\ out[a].race_id = out[b].race_id /\ out[a].race_id = out[c].race_id
         /\ out[a].last_3f = NA /\ out[a].last_3f_rank = NA
         /\ out[b].last_3f_rank = 1 /\ out[c].last_3f_rank = 2

(* C8: a non-empty input comes back with the same rows in the same order   *)
(* under the same index labels, the added last_3f_rank column apart.       *)
C8_FramePreserved ==
    (Ranked /\ df # <<>>) =>
      /\ Len(out) = Len(df)
      /\ \A p \in 1..Len(df) : [out[p] EXCEPT !.last_3f_rank = NA] = df[p]

----------------------------------------------------------------------------
(* Claims about the feature builders (checked under SpecBuild).            *)

(* The stored entries behind a cached row of a SQL builder.                *)
EntriesOfRow(r) ==
    SelectSeq(db, LAMBDA e : InPopulation(e) /\ e.code = r.code /\ e.cond = r.cond)

(* The sampled rows behind a cached row of Last3FRankBuilder.              *)
SampleOfRow(r) ==
    LET g == CHOOSE x \in Range(PopularityGroups) : x.label = r.popularity_group
    IN  SelectSeq(CombinedResults(db, group_keys),
                  LAMBDA x : InBand(g, x) /\ x.last_3f_rank = r.last_3f_rank)

SqlRank(e) == CastInteger(e.kakutei_chakujun)

(* The two named cases of C9 for a SQL builder; roi_percentage is kept in  *)
(* hundredths of a percent and odds in tenths.                             *)
SqlRoiCases ==
    \A i \in 1..Len(cache.rows) :
       LET r  == cache.rows[i]
           es == EntriesOfRow(r)
       IN  /\ (\A j \in 1..Len(es) : SqlRank(es[j]) # 1) => r.roi_percentage = 0
           /\ \A X \in {10, 24} :
                 (\A j \in 1..Len(es) : SqlRank(es[j]) = 1 /\ es[j].tansho_odds = X)
                    => r.roi_percentage = 1000 * X

(* The same two cases for Last3FRankBuilder, whose roi is a fraction.      *)
Last3fRoiCases ==
    \A i \in 1..Len(cache.rows) :
       LET r  == cache.rows[i]
           xs == SampleOfRow(r)
       IN  /\ (\A j \in 1..Len(xs) : xs[j].rank # 1) => IsSet(r.roi) /\ r.roi.num = 0
           /\ \A X \in {10, 24} :
                 (\A j \in 1..Len(xs) : xs[j].rank = 1 /\ xs[j].odds = X)
                    => IsSet(r.roi) /\ r.roi.num = 10 * X * r.roi.den

(* C9: for every builder the ROI of an output group is 100 x (sum of the   *)
(* odds of its rank-1 entries) / (number of its entries); stated here by   *)
(* its two named cases: the ROI of a cached group without a win is exactly *)
(* 0.0, and the ROI of a cached group whose every entry wins at odds X is  *)
(* exactly 100 x X.  Violated: Last3FRankBuilder gives a group without a   *)
(* win the ROI NaN.                                                        *)
C9_GroupRoi ==
    (cache.built /\ cache.cols) =>
       IF kind \in SqlKinds THEN SqlRoiCases
       ELSE IF kind = "last3f" THEN Last3fRoiCases
       ELSE TRUE

(* A cached row of the key the last call asked for.                        *)
KeyCached ==
    \E i \in 1..Len(cache.rows) :
       cache.rows[i].code = ret.key.code /\ cache.rows[i].cond = ret.key.cond

(* C10: for the sire, jockey and horse builders, whatever the cache held   *)
(* (nothing yet, rows, no qualifying group, the result of a failed query), *)
(* the score accessor called with a key that has no cached row returns     *)
(* exactly 100.0 and does not raise, as long as the database engine can be *)
(* made.  Violated: after a failed query the accessor raises KeyError.     *)
C10_UnseenKeyScores100 ==
    (kind \in SqlKinds /\ stage = "ready" /\ ret.op = "get_score" /\ ~KeyCached)
       => (ret.raised = "none" /\ ret.score = [num |-> 100, den |-> 1])

(* Once a build() has returned, a call that does not force a rebuild runs  *)
(* no retrieval and leaves the cache as it is; a forced build runs it.     *)
CachedUntilForced ==
    /\ (calls.returned /\ ~calls'.force) => (~calls'.fetched /\ cache' = cache)
    /\ calls'.force => calls'.fetched

(* C11: for each of the four builders, over any sequence of build and      *)
(* accessor calls on one instance, once a build() call has returned every  *)
(* later build(force_rebuild=False) and every accessor call uses the same  *)
(* cached table without executing the data retrieval again and without     *)
(* changing the cache; only build(force_rebuild=True) re-executes it.      *)
(* Violated: a Last3FRankBuilder.build() that finds no rows returns an     *)
(* empty frame and caches nothing, so the next call retrieves again.       *)
C11_CachedUntilForced == [][CachedUntilForced]_vars

(* The entries of the filtered population with a grouping key.             *)
Population(code, cond) ==
    {i \in 1..Len(db) : InPopulation(db[i]) /\ db[i].code = code /\ db[i].cond = cond}

RowsOfKey(code, cond) ==
    {i \in 1..Len(cache.rows) : cache.rows[i].code = code /\ cache.rows[i].cond = cond}

(* C12: for the sire, jockey and horse builders every row of the build()   *)
(* output has a count of at least the configured minimum, every grouping   *)
(* key whose filtered population has at least the minimum appears exactly  *)
(* once, with that count, and a key below the minimum is absent whatever   *)
(* its win rate.                                                           *)
C12_MinimumCount ==
    (kind \in SqlKinds /\ cache.cols) =>
       /\ \A i \in 1..Len(cache.rows) : cache.rows[i].total >= min_runs
       /\ \A code \in Codes, cond \in Conds :
             LET n == Cardinality(Population(code, cond))
             IN  /\ n >= min_runs =>
                      /\ Cardinality(RowsOfKey(code, cond)) = 1
                      /\ \A i \in RowsOfKey(code, cond) : cache.rows[i].total = n
                 /\ n < min_runs => RowsOfKey(code, cond) = {}

(* A table built with minimum 2: entity 1 has exactly two entries and is   *)
(* present; entity 2 has one entry, a win, and is absent.                  *)
C12_Witness ==
    /\ kind \in SqlKinds /\ cache.cols /\ min_runs = 2
    /\ Cardinality(Population(1, "turf")) = 2
    /\ Cardinality(RowsOfKey(1, "turf")) = 1
    /\ Cardinality(Population(2, "dirt")) = 1
    /\ \A i \in Population(2, "dirt") : db[i].kakutei_chakujun = "01"
    /\ RowsOfKey(2, "dirt") = {}

(* The cached rows that match the filter of the last top-K call.           *)
Matching ==
    {i \in 1..Len(cache.rows) :
        ret.key.cond = "none" \/ cache.rows[i].cond = ret.key.cond}

TopCall == kind \in SqlKinds /\ ret.op = "get_top" /\ cache.cols

(* C13: a top-K accessor over a cached query result returns min(K, m)      *)
(* rows, m being the number of cached rows that match every supplied       *)
(* dimension value (an omitted dimension does not filter); the returned    *)
(* rows are distinct matching rows in non-increasing ROI order and no      *)
(* matching row left out has a higher ROI than a returned row.             *)
C13_TopK ==
    TopCall =>
       LET top == ret.table.rows
           K == ret.key.code
       IN  /\ ret.raised = "none"
           /\ Len(top) = Min(K, Cardinality(Matching))
           /\ \A j \in 1..Len(top) : \E i \in Matching : cache.rows[i] = top[j]
           /\ \A j1, j2 \in 1..Len(top) : j1 < j2 =>
                 /\ top[j1] # top[j2]
                 /\ top[j1].roi_percentage >= top[j2].roi_percentage
           /\ \A i \in Matching :
                 (\A j \in 1..Len(top) : top[j] # cache.rows[i]) =>
                    \A j \in 1..Len(top) :
                       cache.rows[i].roi_percentage <= top[j].roi_percentage

(* Two cached rows of different ROI: the unfiltered top-1 is the higher    *)
(* and leaves the lower out.                                               *)
C13_Witness ==
    /\ TopCall /\ ret.raised = "none"
    /\ ret.key.cond = "none" /\ ret.key.code = 1
    /\ Len(cache.rows) = 2 /\ Len(ret.table.rows) = 1
    /\ \E i \in 1..2 : cache.rows[i].roi_percentage < ret.table.rows[1].roi_percentage

----------------------------------------------------------------------------
(* Claims about the stages as a caller uses them (checked under SpecStage).*)

CleanedTwice == stage = "clean_race_data twice"

(* C14: clean_race_data is idempotent: cleaning the table a first cleaning *)
(* returned gives that table again in every column (the numeric            *)
(* coercions, race_date, the derived labels, age and weight_change), with  *)
(* no column added.                                                        *)
C14_CleanIdempotent ==
    CleanedTwice => (out = df /\ CleanedColumns(df, columns) = columns)

(* A row whose zogen_sa was the string "004" under the sign '-', cleaned   *)
(* twice: weight_change -4, a race_date and an age.                        *)
C14_Witness ==
    /\ CleanedTwice /\ Len(out) = 1
    /\ out[1].zogen_sa = Num(4) /\ out[1].zogen_fugo = "-"
    /\ out[1].weight_change = Num(0 - 4)
    /\ out[1].race_date = "2023-01-05"
    /\ out[1].age = Num(3)

StageReturned == stage \notin {"raw", "input"} /\ result.raised = "none"

(* C15: each of clean_race_data, calculate_last_3f_rank and                *)
(* add_previous_races_features returns a new object, never the table the   *)
(* caller passed, also for an empty table and for a table lacking a column *)
(* the stage needs.                                                        *)
C15_ReturnsNewObject == StageReturned => ~result.alias

(* C16: add_previous_races_features on a table lacking horse_id, race_id,  *)
(* race_date, kyori, track_type or rank does not raise, returns a table    *)
(* equal to its input and emits a warning.                                 *)
C16_MissingColumnTolerated ==
    (/\ stage = "add_previous_races_features"
     /\ ~((required_cols \cup {"rank"}) \subseteq columns))
    => (result.raised = "none" /\ out = df /\ result.warned)

----------------------------------------------------------------------------
(* Claims about empty and failed retrievals and about the population       *)
(* (checked under SpecBuild).                                              *)

(* The retrieval of the builder yields no rows.                            *)
EmptyResultSet ==
    IF kind \in SqlKinds THEN QueryResults(kind, db, min_runs) = {<<>>}
    ELSE CombinedResults(db, group_keys) = <<>>

(* C17: an empty result set is never an error: when the retrieval yields   *)
(* no rows and no query failed, build and the accessors return an empty    *)
(* table, get_last_3f_roi_adjustment returns 1.0, and none of them raises. *)
C17_EmptyNeverRaises ==
    (/\ stage = "ready" /\ ret.op # "none"
     /\ ~calls.failed /\ (kind \in SqlKinds => cache.cols)
     /\ EmptyResultSet)
    => /\ ret.raised = "none"
       /\ ret.table.rows = <<>>
       /\ ret.op = "get_last_3f_roi_adjustment" => ret.score = [num |-> 1, den |-> 1]

(* C18: a build() whose query failed raises to its caller and does not     *)
(* cache or return an empty table in place of the failure.                 *)
C18_FailureSurfaced ==
    (ret.op = "build" /\ calls.failed)
    => (ret.raised # "none" /\ cache # EmptyFrame)

(* A result row of get_race_results that belongs to the population.        *)
ValidResult(r) ==
    r.rank \notin {NA, 0, 99} /\ r.popularity # NA /\ r.odds # NA

(* C19: in all four builders only entries with a numeric finishing rank    *)
(* other than "00" and "99" and with popularity and odds contribute to     *)
(* the counts of an output group: every cached row's total, wins and top-3 *)
(* are those of the valid entries of its group.                            *)
C19_OnlyPopulationCounts ==
    (cache.cols /\ kind \in Kinds) =>
    \A r \in Range(cache.rows) :
       IF kind \in SqlKinds
       THEN LET es == SelectSeq(db, LAMBDA e : InPopulation(e)
                                   /\ e.code = r.code /\ e.cond = r.cond)
            IN  r.total = Len(es) /\ r.wins = CountWins(es)
       ELSE LET g == CHOOSE x \in Range(PopularityGroups) :
                        x.label = r.popularity_group
                es == SelectSeq(CombinedResults(db, group_keys),
                         LAMBDA x : /\ InBand(g, x) /\ ValidResult(x)
                                    /\ x.last_3f_rank = r.last_3f_rank)
            IN  /\ r.total_horses = Len(es)
                /\ r.wins = Cardinality({i \in 1..Len(es) : es[i].rank = 1})
                /\ r.top3 = Cardinality({i \in 1..Len(es) : es[i].rank <= 3})

----------------------------------------------------------------------------
(* Claim about the determinism of the rolling-history stage (checked under *)
(* SpecRoll).                                                              *)

(* C20: add_previous_races_features is deterministic and independent of    *)
(* the input row order: every table with the rows of df in another order,  *)
(* and every frame sort_values may return for it, gives each row (found by *)
(* its index label) the feature values of out, also when a horse has two   *)
(* prior races on the same race_date.                                      *)
C20_OrderIndependent ==
    (Rolled /\ result = NewObject) =>
    \A t2 \in Perms(Range(df)) : \A ord2 \in SortChoices(t2) :
       LET out2 == add_previous_races_features(t2, ord2, n_previous)
       IN  \A p \in 1..Len(df), q \in 1..Len(t2) :
              t2[q].idx = df[p].idx => out2[q].feat = out[p].feat

----------------------------------------------------------------------------
(* Claims about the cleaning stage (checked under SpecStage).              *)

Cleaned == stage = "clean_race_data"

(* What the coercion of a string of the model is to give: the number of a  *)
(* numeric string, missing for any other string.                           *)
Expected(x) ==
    CASE x = "004" -> Num(4) [] x = "480" -> Num(480) [] x = "01" -> Num(1)
      [] OTHER -> NaN

(* C21: clean_race_data turns a non-numeric or empty value of a numeric    *)
(* column into missing and a numeric string into its number, gives an      *)
(* unparseable year and month-day a missing race_date, and neither raises  *)
(* nor drops a row.                                                        *)
C21_CoercionTotal ==
    Cleaned =>
    /\ result.raised = "none"
    /\ Len(out) = Len(df)
    /\ \A i \in 1..Len(df) :
          /\ ~df[i].rank.float => out[i].rank = Expected(df[i].rank.str)
          /\ ~df[i].bataiju.float => out[i].bataiju = Expected(df[i].bataiju.str)
          /\ ~df[i].zogen_sa.float => out[i].zogen_sa = Expected(df[i].zogen_sa.str)
          /\ (/\ {"kaisai_nen", "kaisai_tsukihi"} \subseteq columns
              /\ df[i].kaisai_nen = "2023" /\ df[i].kaisai_tsukihi = "1345")
             => out[i].race_date = "NaT"

(* A row with an unparsable zogen_sa, a numeric rank string and the        *)
(* month-day 1345, cleaned.                                                *)
C21_Witness ==
    /\ Cleaned /\ Len(df) = 1 /\ columns = RawColumns
    /\ df[1].zogen_sa = Str("abc") /\ out[1].zogen_sa = NaN
    /\ df[1].rank = Str("01") /\ out[1].rank = Num(1)
    /\ df[1].kaisai_tsukihi = "1345" /\ out[1].race_date = "NaT"

(* C22: the derived labels are total with an explicit fallback: track_type *)
(* is turf for a code starting with '1', dirt for one starting with '2',   *)
(* other otherwise; baba_condition maps 1, 2, 3, 4 to good, slightly       *)
(* heavy, heavy, bad and every other code, 0 and a missing one included,   *)
(* to other; sex maps 1, 2, 3 to male, female, gelding and every other     *)
(* code to unknown.                                                        *)
C22_LabelsTotal ==
    (Cleaned /\ columns = RawColumns) =>
    \A i \in 1..Len(df) :
       LET tc == df[i].track_code
           bc == df[i].babajotai_code
           sc == df[i].seibetsu_code
       IN  /\ out[i].track_type \in {"turf", "dirt", "other"}
           /\ out[i].track_type = "turf" <=> tc \in {"11", "17"}
           /\ out[i].track_type = "dirt" <=> tc \in {"23", "29"}
           /\ out[i].baba_condition =
                 (CASE bc = "1" -> "good" [] bc = "2" -> "slightly heavy"
                    [] bc = "3" -> "heavy" [] bc = "4" -> "bad"
                    [] bc \in {"0", "None"} -> "other")
           /\ out[i].sex =
                 (CASE sc = "1" -> "male" [] sc = "2" -> "female"
                    [] sc = "3" -> "gelding"
                    [] sc \in {"0", "9", "None"} -> "unknown")

(* Cleaned rows of a turf race on good ground and of a row whose surface   *)
(* and sex codes are missing.                                              *)
C22_Witness ==
    /\ Cleaned /\ Len(df) = 1
    /\ df[1].track_code = "None" /\ out[1].track_type = "other"
    /\ df[1].babajotai_code = "4" /\ out[1].baba_condition = "bad"
    /\ df[1].seibetsu_code = "None" /\ out[1].sex = "unknown"

(* C23: weight_change is the magnitude zogen_sa, negated when zogen_fugo   *)
(* is '-'; a missing magnitude gives 0, and an absent sign flag still      *)
(* gives a weight_change (the unsigned magnitude or 0).                    *)
C23_WeightChange ==
    (Cleaned /\ {"bataiju", "zogen_sa"} \subseteq columns) =>
    \A i \in 1..Len(df) :
       LET mag == IF out[i].zogen_sa.num = NA THEN 0 ELSE out[i].zogen_sa.num
           neg == "zogen_fugo" \in columns /\ df[i].zogen_fugo = "-"
       IN  out[i].weight_change = Num(IF neg THEN 0 - mag ELSE mag)

----------------------------------------------------------------------------
(* Claim about the most recent prior race (checked under SpecRoll).        *)

(* C24: for every row with a non-empty window, days_since_last_race is the *)
(* row's race_date minus the latest race_date of the window and is at      *)
(* least 1, and last_race_rank and last_race_popularity are the rank and   *)
(* the popularity of a window row of that latest date.                     *)
C24_LastRace ==
    Rolled =>
    \A p \in 1..Len(out) :
       windows[p] # <<>> =>
       LET w == windows[p]
           latest == CHOOSE d \in {w[i].race_date : i \in 1..Len(w)} :
                        \A i \in 1..Len(w) : w[i].race_date <= d
           f == out[p].feat
       IN  /\ f.days_since_last_race = df[p].race_date - latest
           /\ f.days_since_last_race >= 1
           /\ \E i \in 1..Len(w) :
                 /\ w[i].race_date = latest
                 /\ w[i].rank = f.last_race_rank
                 /\ w[i].popularity = f.last_race_popularity

(* A row two days after the later of two prior races of different dates    *)
(* and ranks.                                                              *)
C24_Witness ==
    /\ Rolled
    /\ \E p \in 1..Len(out) :
          /\ Len(windows[p]) = 2
          /\ windows[p][1].race_date < windows[p][2].race_date
          /\ windows[p][1].rank # windows[p][2].rank
          /\ out[p].feat.days_since_last_race = 2
          /\ out[p].feat.last_race_rank = windows[p][2].rank

----------------------------------------------------------------------------
(* Claims about the score accessors and the grouping keys (checked under   *)
(* SpecBuild).                                                             *)

(* The cached rows a score call with the key of ret matches.               *)
ScoredRows ==
    {r \in Range(cache.rows) : r.code = ret.key.code /\ r.cond = ret.key.cond}

RoiSum == SeqSum([i \in 1..Len(cache.rows) |-> cache.rows[i].roi_percentage] \o <<>>)

RECURSIVE Gcd(_, _)
Gcd(x, y) == IF y = 0 THEN x ELSE Gcd(y, x % y)

(* A fraction in lowest terms.                                             *)
Lowest(f) ==
    LET g == Gcd(f.num, f.den)
    IN  IF g = 0 THEN f ELSE [num |-> f.num \div g, den |-> f.den \div g]

(* C25: the score of a key that has a cached row is a finite number equal  *)
(* to 100 x (the row's ROI) / (the unweighted mean ROI of the cached       *)
(* rows), also when every cached ROI is 0.                                 *)
C25_ScoreNormalised ==
    (/\ kind \in SqlKinds /\ ret.op = "get_score" /\ ret.raised = "none"
     /\ cache.cols /\ ScoredRows # {})
    => /\ IsSet(ret.score)
       /\ \E r \in ScoredRows :
             Lowest(ret.score)
                = Lowest([num |-> 100 * r.roi_percentage * Len(cache.rows),
                          den |-> RoiSum])

----------------------------------------------------------------------------
(* Claim about the horse history (checked under SpecHistory).              *)

HistoryTaken == stage = "get_horse_history_with_features"

(* Year and month-day of a row as one number.                              *)
FullDate(r) == r.kaisai_nen * 10000 + (r.kaisai_tsukihi % 10000)

(* C26: get_horse_history_with_features keeps the n_races chronologically  *)
(* most recent races of the horse, by year and month-day, also for a       *)
(* history of more than one year.                                          *)
C26_MostRecentRaces ==
    HistoryTaken =>
    /\ Len(df) = Min(ret.key.code, Len(db))
    /\ \A i \in 1..Len(df) : \A j \in 1..Len(db) :
          (\A k \in 1..Len(df) : df[k] # db[j]) => FullDate(db[j]) < FullDate(df[i])

----------------------------------------------------------------------------
(* Claim about the race identifier (checked under SpecRace).               *)

Queried == stage = "queried"

(* C27: the race_id built as year, month-day, course code and race number  *)
(* is cut by get_race_results and get_race_info into those four fields:    *)
(* the query by the race_id of a stored race returns the rows of that race *)
(* and of no other.                                                        *)
C27_RaceIdRoundTrip ==
    Queried =>
    LET id == RaceIdOf(db[ret.key.code])
        same == {j \in 1..Len(db) : RaceIdOf(db[j]) = id}
    IN  IF ret.op = "get_race_results"
        THEN /\ Len(out) = Cardinality(same)
             /\ \A p \in 1..Len(out) : out[p].race_id = id
        ELSE out = <<id>>

----------------------------------------------------------------------------
(* Claim about the keys of the cached rows (checked under SpecKeys).       *)

(* C28: no two rows of a build() output agree on all the fields the score  *)
(* accessor matches on (the entity's code or, for the sire builder, its    *)
(* name, and the course and track condition), so the arguments of the      *)
(* accessor identify at most one cached row.                               *)
C28_ScoreKeyUnique ==
    cache.cols =>
    \A i, j \in 1..Len(cache.rows) :
       (cache.rows[i].code = cache.rows[j].code
          /\ cache.rows[i].cond = cache.rows[j].cond) => i = j

----------------------------------------------------------------------------
(* Claim about the track-condition label (checked under SpecCond).         *)

(* C29: the track-condition label the sire and the horse builder give a    *)
(* race is the label of the condition code of the race's own surface, the  *)
(* label the cleaning stage derives from the surface-selected              *)
(* babajotai_code, whatever the code of the other surface is.              *)
C29_ConditionOfOwnSurface ==
    stage = "race_conditions" =>
    \A i \in 1..Len(db) :
       out[i].baba_condition = CleanedRace(db[i]).baba_condition

----------------------------------------------------------------------------
(* Claim about the preparation of one race (checked under SpecRace).       *)

Prepared == stage = "prepared"

(* C30: in prepare_race_data_for_prediction the rolling-history stage      *)
(* receives only the rows of the requested race, each horse once, so every *)
(* output row has an empty window and none of its rolling-history features *)
(* set.                                                                    *)
C30_NoHistoryInOneRace ==
    Prepared =>
    /\ Len(out) = Len(df)
    /\ \A p \in 1..Len(df) :
          /\ df[p].race_id = RaceIdOf(db[ret.key.code])
          /\ \A q \in 1..Len(df) : df[q].horse_id = df[p].horse_id => q = p
          /\ windows[p] = <<>>
          /\ out[p].feat = NoFeatures

(* A race of two horses prepared, beside none: two output rows.            *)
C30_Witness ==
    /\ Prepared /\ Len(db) = 2 /\ Len(out) = 2
    /\ out[1].row.horse_id # out[2].row.horse_id
    /\ out[1].feat = NoFeatures /\ out[2].feat = NoFeatures

====
